---------------------------- MODULE Spec2Model ----------------------------
(***************************************************************************)
(* Template-driven content generation and export pipeline.                 *)
(*                                                                         *)
(* Python dicts are records/functions whose DOMAIN is the set of keys that *)
(* are present ("k in d" is k \in DOMAIN d).  Python lists are sequences.  *)
(* A text is a sequence of tokens; a token stands for one character or for *)
(* an unbroken run of ordinary characters.                                 *)
(***************************************************************************)
EXTENDS Integers, Sequences, FiniteSets, TLC

VARIABLES
    tpl,        \* the template a caller of TemplateEngine holds (mutated in place)
    sessions,   \* app.py active_sessions: session id -> session dict
    outputs,    \* paths of the files in the output directory
    uploads,    \* the upload directory: path -> what the file at the path holds
    generated,  \* history: ids of the sessions on which a generate has completed
    resp        \* the last operation: its inputs, the state before it, its outcome

vars == <<tpl, sessions, outputs, uploads, generated, resp>>

-----------------------------------------------------------------------------
(* Bounds of the model *)

MaxSections == 3    \* longest section list a template reaches
MaxOrderLen == 2    \* longest id list handed to reorder_sections
MaxOrder    == 2    \* largest order value a caller supplies
MaxGenSections == 2 \* longest section list handed to generate_content alone
MaxRender   == 2    \* longest section list and largest content handed to generate_output alone
MaxFiles    == 1    \* most files uploaded to one session
MaxClock    == 2    \* last clock second at which an export is requested
MaxChunks   == 3    \* most pieces a completion text is made of
MaxLines    == 3    \* most lines of a completion handed to _format_content
MaxQuality  == 3    \* most sections of a content handed to validate_content_quality
MaxBatch    == 2    \* most files in one upload request
MaxUploaded == 3    \* most files uploaded to the session of the upload model
MaxSaved    == 2    \* most files uploaded to each session of the upload directory model
MaxPosted   == 2    \* longest section list of a template handed to validate_template

-----------------------------------------------------------------------------
(* Generic helpers *)

Range(s) == {s[i] : i \in DOMAIN s}

SeqsUpTo(S, n) == UNION {[1..k -> S] : k \in 0..n}

\* dict.get(key, default)
Get(d, key, default) == IF key \in DOMAIN d THEN d[key] ELSE default

Distinct(s) == \A i, j \in DOMAIN s : i # j => s[i] # s[j]

\* d[k] = v for a dict d (a record or function): the key is added or replaced.
DictSet(d, k, v) == [x \in DOMAIN d \cup {k} |-> IF x = k THEN v ELSE d[x]]

\* dict.update(u)
DictUpdate(d, u) == [x \in DOMAIN d \cup DOMAIN u |-> IF x \in DOMAIN u THEN u[x] ELSE d[x]]

\* A JSON value that is not a dict where the code expects one.
NonDict == [_scalar |-> "x"]

IsDict(v) == "_scalar" \notin DOMAIN v

-----------------------------------------------------------------------------
(* services/template_engine.py *)

DefaultMetadata == [name |-> "Default Consulting Report", version |-> "1.0"]

DefaultStyle == [tone |-> "professional"]

DefaultFormatting == [font_family |-> "Arial"]

\* f"section_{n}"
SectionName(n) ==
    CASE n = 1 -> "section_1" [] n = 2 -> "section_2" [] n = 3 -> "section_3"
      [] n = 4 -> "section_4" [] n = 5 -> "section_5" [] n = 6 -> "section_6"
      [] OTHER -> "section_n"

\* template['structure']['sections']
Sections(t) == t.structure.sections

WithSections(t, secs) ==
    [t EXCEPT !.structure = DictSet(t.structure, "sections", secs)]

\* {"sections": x} with x not a list is the structure [sections_nonlist |-> x].
HasSectionsKey(structure) ==
    "sections" \in DOMAIN structure \/ "sections_nonlist" \in DOMAIN structure

SectionsIsList(structure) == "sections" \in DOMAIN structure

required_fields == <<"metadata", "structure", "style", "formatting">>

required_section_fields == <<"id", "title", "order">>

\* The first field of fields (a sequence) that is no key of d, or "" if none.
RECURSIVE FirstMissing(_, _, _)
FirstMissing(d, fields, k) ==
    IF k > Len(fields) THEN ""
    ELSE IF fields[k] \notin DOMAIN d THEN fields[k]
    ELSE FirstMissing(d, fields, k + 1)

\* ValidateSections without the duplicate-id test.
RECURSIVE ValidateSectionsNoDup(_, _, _)
ValidateSectionsNoDup(sections, i, section_ids) ==
    IF i > Len(sections) THEN [ok |-> TRUE]
    ELSE LET section == sections[i] IN
         IF ~IsDict(section)
         THEN [ok |-> FALSE, error |-> "must be a dictionary", index |-> i - 1]
         ELSE LET f == FirstMissing(section, required_section_fields, 1) IN
              IF f # ""
              THEN [ok |-> FALSE, error |-> "missing required field",
                    field |-> f, index |-> i - 1]
              ELSE ValidateSectionsNoDup(sections, i + 1, section_ids)

\* The loop over enumerate(sections) of validate_template, from index i with
\* the ids seen so far; i is 1-based here and 0-based in the messages.
RECURSIVE ValidateSections(_, _, _)
ValidateSections(sections, i, section_ids) ==
    IF i > Len(sections) THEN [ok |-> TRUE]
    ELSE LET section == sections[i] IN
         IF ~IsDict(section)
         THEN [ok |-> FALSE, error |-> "must be a dictionary", index |-> i - 1]
         ELSE LET f == FirstMissing(section, required_section_fields, 1) IN
              IF f # ""
              THEN [ok |-> FALSE, error |-> "missing required field",
                    field |-> f, index |-> i - 1]
              ELSE IF section.id \in section_ids
              THEN [ok |-> FALSE, error |-> "Duplicate section ID", id |-> section.id]
              ELSE ValidateSections(sections, i + 1, section_ids \cup {section.id})

\* validate_template: [ok |-> TRUE] for "return True", else the ValueError raised.
validate_template(template) ==
    LET f == FirstMissing(template, required_fields, 1) IN
    IF f # "" THEN [ok |-> FALSE, error |-> "Missing required field", field |-> f]
    ELSE IF ~HasSectionsKey(template.structure)
    THEN [ok |-> FALSE, error |-> "Template must have sections"]
    ELSE IF ~SectionsIsList(template.structure) \/ Len(Sections(template)) = 0
    THEN [ok |-> FALSE, error |-> "Template must have at least one section"]
    ELSE ValidateSections(Sections(template), 1, {})

\* list.sort(key=lambda x: x['order']): a stable sort, as insertion from the left.
RECURSIVE InsertByOrder(_, _)
InsertByOrder(sorted, x) ==
    IF sorted = <<>> THEN <<x>>
    ELSE IF sorted[Len(sorted)].order <= x.order THEN Append(sorted, x)
    ELSE Append(InsertByOrder(SubSeq(sorted, 1, Len(sorted) - 1), x), sorted[Len(sorted)])

RECURSIVE SortByOrder(_)
SortByOrder(s) ==
    IF s = <<>> THEN <<>>
    ELSE InsertByOrder(SortByOrder(SubSeq(s, 1, Len(s) - 1)), s[Len(s)])

\* The section dict after the four defaulting steps of add_section.
AddDefaults(template, section) ==
    LET n  == Len(Sections(template))
        s1 == IF "id" \notin DOMAIN section
              THEN DictSet(section, "id", SectionName(n + 1)) ELSE section
        s2 == IF "order" \notin DOMAIN s1 THEN DictSet(s1, "order", n + 1) ELSE s1
        s3 == IF "required" \notin DOMAIN s2 THEN DictSet(s2, "required", FALSE) ELSE s2
    IN  IF "content_type" \notin DOMAIN s3 THEN DictSet(s3, "content_type", "text") ELSE s3

\* add_section without the final sort.
add_section_nosort(template, section) ==
    WithSections(template, Append(Sections(template), AddDefaults(template, section)))

add_section(template, section) ==
    WithSections(template,
        SortByOrder(Append(Sections(template), AddDefaults(template, section))))

remove_section(template, section_id) ==
    WithSections(template,
        SelectSeq(Sections(template), LAMBDA section : section.id # section_id))

\* The loop of update_section: the first section of the id takes the updates.
RECURSIVE UpdateFirst(_, _, _, _)
UpdateFirst(sections, section_id, updates, k) ==
    IF k > Len(sections) THEN sections
    ELSE IF sections[k].id = section_id
    THEN [sections EXCEPT ![k] = DictUpdate(@, updates)]
    ELSE UpdateFirst(sections, section_id, updates, k + 1)

update_section(template, section_id, updates) ==
    WithSections(template, UpdateFirst(Sections(template), section_id, updates, 1))

\* section_dict = {section['id']: section for section in sections}: the last
\* section of an id is the one the dict keeps.
SectionDict(sections) ==
    [id \in {sections[i].id : i \in DOMAIN sections} |->
        sections[CHOOSE i \in DOMAIN sections :
            /\ sections[i].id = id
            /\ \A j \in DOMAIN sections : sections[j].id = id => j <= i]]

\* The loop of reorder_sections over enumerate(new_order), order written in place:
\* a section appended twice is one object, so both entries carry the last order.
RECURSIVE ReorderLoop(_, _, _, _)
ReorderLoop(section_dict, new_order, k, reordered) ==
    IF k > Len(new_order) THEN [dict |-> section_dict, ids |-> reordered]
    ELSE IF new_order[k] \in DOMAIN section_dict
    THEN ReorderLoop(
            [section_dict EXCEPT ![new_order[k]] = DictSet(@, "order", k)],
            new_order, k + 1, Append(reordered, new_order[k]))
    ELSE ReorderLoop(section_dict, new_order, k + 1, reordered)

\* reorder_sections that numbers the kept sections by their place in the result.
reorder_sections_dense(template, new_order) ==
    LET d    == SectionDict(Sections(template))
        kept == SelectSeq(new_order, LAMBDA id : id \in DOMAIN d)
    IN  WithSections(template, [k \in DOMAIN kept |-> DictSet(d[kept[k]], "order", k)])

reorder_sections(template, new_order) ==
    LET r == ReorderLoop(SectionDict(Sections(template)), new_order, 1, <<>>)
    IN  WithSections(template, [k \in DOMAIN r.ids |-> r.dict[r.ids[k]]])

\* template['style'].update(style_updates)
update_style(template, style_updates) ==
    [template EXCEPT !.style = DictUpdate(@, style_updates)]

\* template['formatting'].update(formatting_updates)
update_formatting(template, formatting_updates) ==
    [template EXCEPT !.formatting = DictUpdate(@, formatting_updates)]

\* create_custom_template(name, description, sections), template being what
\* get_default_template returned to it: the dict as it is when validate_template
\* returns or raises.
create_custom_template(template, name, description, sections) ==
    LET named == [template EXCEPT !.metadata =
                     DictUpdate(@, [name |-> name, description |-> description,
                                    created_at |-> "now"])]
        custom == WithSections(named, sections)
    IN  [template |-> custom, raised |-> ~validate_template(custom).ok]

-----------------------------------------------------------------------------
(* Python dicts whose iteration order is observable: a sequence of [k, v]  *)
(* entries with pairwise different keys, in insertion order.               *)

OKeys(d) == [i \in DOMAIN d |-> d[i].k]

OHas(d, key) == \E i \in DOMAIN d : d[i].k = key

OGet(d, key) == d[CHOOSE i \in DOMAIN d : d[i].k = key].v

\* d[key] = value: a present key keeps its place, a new key goes last.
OSet(d, key, value) ==
    IF OHas(d, key)
    THEN [i \in DOMAIN d |-> IF d[i].k = key THEN [k |-> key, v |-> value] ELSE d[i]]
    ELSE Append(d, [k |-> key, v |-> value])

-----------------------------------------------------------------------------
(* Texts *)

Whitespace == {" ", "\n"}

\* The token of the character U+2022.
Bullet == "U+2022"

Digits == {"0", "1", "2", "3", "4", "5", "6", "7", "8", "9"}

RECURSIVE LStrip(_)
LStrip(s) == IF s # <<>> /\ Head(s) \in Whitespace THEN LStrip(Tail(s)) ELSE s

RECURSIVE RStrip(_)
RStrip(s) ==
    IF s # <<>> /\ s[Len(s)] \in Whitespace THEN RStrip(SubSeq(s, 1, Len(s) - 1)) ELSE s

\* str.strip()
Strip(s) == RStrip(LStrip(s))

\* The least index >= i of s holding a token of set S, or 0.
RECURSIVE IndexFrom(_, _, _)
IndexFrom(s, S, i) ==
    IF i > Len(s) THEN 0 ELSE IF s[i] \in S THEN i ELSE IndexFrom(s, S, i + 1)

\* str.split(sep): the pieces between the occurrences of sep (never empty).
RECURSIVE Split(_, _)
Split(s, sep) ==
    LET j == IndexFrom(s, {sep}, 1) IN
    IF j = 0 THEN <<s>> ELSE <<SubSeq(s, 1, j - 1)>> \o Split(SubSeq(s, j + 1, Len(s)), sep)

\* str.split(sep, 1)[1], for a text that holds sep.
AfterFirst(s, sep) == SubSeq(s, IndexFrom(s, {sep}, 1) + 1, Len(s))

BeforeFirst(s, sep) == SubSeq(s, 1, IndexFrom(s, {sep}, 1) - 1)

\* len(text.split()): the number of maximal runs of non-whitespace.
RECURSIVE WordCount(_)
WordCount(s) ==
    LET t == LStrip(s) IN
    IF t = <<>> THEN 0
    ELSE LET j == IndexFrom(t, Whitespace, 1) IN
         IF j = 0 THEN 1 ELSE 1 + WordCount(SubSeq(t, j, Len(t)))

-----------------------------------------------------------------------------
(* services/ai_service.py *)

\* re.findall(r'\[([^\]]+)\]', text): scanning from i, the groups matched.
RECURSIVE FindAll(_, _)
FindAll(text, i) ==
    IF i > Len(text) THEN <<>>
    ELSE IF text[i] # "[" THEN FindAll(text, i + 1)
    ELSE LET j == IndexFrom(text, {"]"}, i + 1) IN
         IF j > i + 1 THEN <<SubSeq(text, i + 1, j - 1)>> \o FindAll(text, j + 1)
         ELSE FindAll(text, i + 1)

\* The loop of _extract_citations without its test for ":": every match
\* becomes a citation.
RECURSIVE CitationsOfAll(_)
CitationsOfAll(matches) ==
    IF matches = <<>> THEN <<>>
    ELSE LET match == Head(matches) IN
         <<[source        |-> Strip(BeforeFirst(match, ":")),
            location      |-> IF ":" \in Range(match) THEN Strip(AfterFirst(match, ":")) ELSE <<>>,
            full_citation |-> match]>> \o CitationsOfAll(Tail(matches))

RECURSIVE CitationsOf(_)
CitationsOf(matches) ==
    IF matches = <<>> THEN <<>>
    ELSE LET match == Head(matches) IN
         IF ":" \in Range(match)
         THEN <<[source        |-> Strip(BeforeFirst(match, ":")),
                 location      |-> Strip(AfterFirst(match, ":")),
                 full_citation |-> match]>> \o CitationsOf(Tail(matches))
         ELSE CitationsOf(Tail(matches))

_extract_citations(text) == CitationsOf(FindAll(text, 1))

\* The items the loop of _format_content collects from lines.
RECURSIVE FormatLines(_)
FormatLines(lines) ==
    IF lines = <<>> THEN <<>>
    ELSE LET line == Strip(Head(lines)) IN
         IF line # <<>> /\ line[1] \in {"-", Bullet, "*"}
         THEN <<Strip(Tail(line))>> \o FormatLines(Tail(lines))
         ELSE IF line # <<>> /\ line[1] \in Digits /\ "." \in Range(line)
         THEN <<Strip(AfterFirst(line, "."))>> \o FormatLines(Tail(lines))
         ELSE FormatLines(Tail(lines))

\* A content value is [list |-> items] for a Python list of strings and
\* [str |-> text] for a Python string.
_format_content(content, content_type) ==
    IF content_type = "list"
    THEN LET items == FormatLines(Split(content, "\n")) IN
         [list |-> IF items # <<>> THEN items ELSE <<content>>]
    ELSE [str |-> content]

\* The outcome of one call of the AI capability (model.generate_content and
\* response.text): a completion text, or an exception with its message.
Completion(text) == [ok |-> TRUE, text |-> text]

Failure(msg) == [ok |-> FALSE, msg |-> msg]

\* The except branch of generate_content: str(e), with the two known causes reworded.
ErrorMsg(msg) ==
    IF "404" \in Range(msg) /\ "models" \in Range(msg)
    THEN <<"Model not found. Current model: ">>
    ELSE IF "API key" \in Range(msg)
    THEN <<"Invalid or missing API key. Please check your GEMINI_API_KEY environment variable.">>
    ELSE msg

\* What one section's entry of generated_content["sections"] becomes.
SectionResult(section, outcome) ==
    LET content_type == IF "content_type" \in DOMAIN section
                        THEN section.content_type ELSE "text"
    IN  IF outcome.ok
        THEN [title      |-> section.title,
              content    |-> _format_content(outcome.text, content_type),
              citations  |-> _extract_citations(outcome.text),
              word_count |-> WordCount(outcome.text),
              type       |-> content_type]
        ELSE [title      |-> section.title,
              content    |-> [str |-> <<"Error generating content: ">> \o ErrorMsg(outcome.msg)],
              citations  |-> <<>>,
              word_count |-> 0,
              type       |-> content_type]

\* GenerateLoop without the try/except around the AI call: a failing call
\* propagates and ends the generation.
RECURSIVE GenerateLoopAbort(_, _, _, _)
GenerateLoopAbort(sections, ai, k, acc) ==
    IF k > Len(sections) THEN [raised |-> FALSE, value |-> acc, ai_calls |-> k - 1]
    ELSE LET section == sections[k] IN
         IF ~IsDict(section) \/ "id" \notin DOMAIN section \/ "title" \notin DOMAIN section
         THEN [raised |-> TRUE, error |-> "KeyError", ai_calls |-> k - 1]
         ELSE IF ~ai[k].ok THEN [raised |-> TRUE, error |-> ai[k].msg, ai_calls |-> k]
         ELSE GenerateLoopAbort(sections, ai, k + 1,
                                OSet(acc, section.id, SectionResult(section, ai[k])))

\* The loop of generate_content over template["structure"]["sections"]; ai[k] is
\* the outcome of the AI call made for the k-th section.  A section that is no
\* dict or lacks "id" or "title" raises outside the try block.
RECURSIVE GenerateLoop(_, _, _, _)
GenerateLoop(sections, ai, k, acc) ==
    IF k > Len(sections) THEN [raised |-> FALSE, value |-> acc, ai_calls |-> k - 1]
    ELSE LET section == sections[k] IN
         IF ~IsDict(section) \/ "id" \notin DOMAIN section \/ "title" \notin DOMAIN section
         THEN [raised |-> TRUE, error |-> "KeyError", ai_calls |-> k - 1]
         ELSE GenerateLoop(sections, ai, k + 1,
                           OSet(acc, section.id, SectionResult(section, ai[k])))

\* generate_content(template, extracted_content, custom_instructions): the
\* returned dict as [raised |-> FALSE, value |-> ...], or the exception.
generate_content(template, extracted_content, ai) ==
    IF ~IsDict(template) \/ "structure" \notin DOMAIN template
       \/ ~SectionsIsList(template.structure)
    THEN [raised |-> TRUE, error |-> "KeyError", ai_calls |-> 0]
    ELSE LET r == GenerateLoop(Sections(template), ai, 1, <<>>) IN
         IF r.raised THEN r
         ELSE [raised   |-> FALSE,
               ai_calls |-> r.ai_calls,
               value    |->
                 [metadata |->
                    [generated_at  |-> "2024-01-01T00:00:00Z",
                     template_name |-> IF "metadata" \in DOMAIN template
                                          /\ "name" \in DOMAIN template.metadata
                                       THEN template.metadata.name ELSE "Unknown",
                     sources_used  |-> OKeys(extracted_content)],
                  sections |-> r.value]]

\* The outcome of the one AI call of refine_content followed by json.loads:
\* the call or the parse raises with a message, or the parse yields a value.
Parsed(value) == [ok |-> TRUE, value |-> value]

\* refine_content(current_content, ...): the try block returns what json.loads
\* yields; the except block writes current_content["metadata"]["refinement_error"],
\* which itself raises when current_content has no "metadata" dict.
refine_content(current_content, outcome) ==
    IF outcome.ok THEN [raised |-> FALSE, value |-> outcome.value]
    ELSE IF ~IsDict(current_content) \/ "metadata" \notin DOMAIN current_content
    THEN [raised |-> TRUE, error |-> "KeyError"]
    ELSE [raised |-> FALSE,
          value  |-> [current_content EXCEPT !.metadata =
                         DictSet(@, "refinement_error", outcome.msg)]]

\* The number of characters of a token of text; "lorem100" and "lorem101"
\* stand for runs of 100 and 101 characters without an action word.
CharLen(token) ==
    CASE token = "lorem100" -> 100
      [] token = "lorem101" -> 101
      [] token = "Recommendation" -> 14
      [] token = "mustard" -> 7
      [] token = "should" -> 6
      [] token = "body" -> 4
      [] token = "one" -> 3
      [] token = "two" -> 3
      [] OTHER -> 1

RECURSIVE TextLen(_)
TextLen(text) == IF text = <<>> THEN 0 ELSE CharLen(Head(text)) + TextLen(Tail(text))

\* len(str(v)) of a content value: the text itself, or the repr of a list of
\* strings ("['a', 'b']").
RECURSIVE ItemsLen(_)
ItemsLen(items) == IF items = <<>> THEN 0 ELSE TextLen(Head(items)) + 2 + ItemsLen(Tail(items))

StrLen(v) ==
    IF "list" \in DOMAIN v
    THEN 2 + ItemsLen(v.list) + (IF v.list = <<>> THEN 0 ELSE 2 * (Len(v.list) - 1))
    ELSE TextLen(v.str)

action_words == {"recommend", "suggest", "propose", "implement", "consider", "should", "must"}

\* The action words that occur in token.lower().
WordsIn(token) ==
    CASE token = "Recommendation" -> {"recommend"}
      [] token = "mustard" -> {"must"}
      [] token = "should" -> {"should"}
      [] OTHER -> {}

\* any(word in section_text.lower() for word in action_words)
HasActionWord(v) ==
    LET texts == IF "list" \in DOMAIN v THEN Range(v.list) ELSE {v.str} IN
    \E text \in texts : \E token \in Range(text) : WordsIn(token) \cap action_words # {}

\* len(citations) == 0 and len(section_text) >= 100
LacksEvidenceFrom100(section) ==
    /\ Len(Get(section, "citations", <<>>)) = 0
    /\ StrLen(Get(section, "content", [str |-> <<>>])) >= 100

\* len(citations) == 0 and len(section_text) > 100
LacksEvidence(section) ==
    /\ Len(Get(section, "citations", <<>>)) = 0
    /\ StrLen(Get(section, "content", [str |-> <<>>])) > 100

\* The loop of validate_content_quality over content["sections"].
RECURSIVE QualityLoop(_, _, _)
QualityLoop(sections, k, acc) ==
    IF k > Len(sections) THEN acc
    ELSE LET section == sections[k].v IN
         QualityLoop(sections, k + 1,
            [total_citations |-> acc.total_citations + Len(Get(section, "citations", <<>>)),
             issues |-> IF LacksEvidence(section)
                        THEN Append(acc.issues, [issue |-> "lacks citations",
                                                 title |-> section.title])
                        ELSE acc.issues,
             suggestions |-> IF ~HasActionWord(Get(section, "content", [str |-> <<>>]))
                             THEN Append(acc.suggestions,
                                         [suggestion |-> "could be more actionable",
                                          title      |-> section.title])
                             ELSE acc.suggestions])

Min(a, b) == IF a <= b THEN a ELSE b

Max(a, b) == IF a >= b THEN a ELSE b

\* 30 if total_sections > 3 else 15
structure_score_above3(total_sections) == IF total_sections > 3 THEN 30 ELSE 15

\* 30 if total_sections >= 3 else 15
structure_score(total_sections) == IF total_sections >= 3 THEN 30 ELSE 15

\* validate_content_quality(content). The score is a quotient: overall_score is
\* num / den with den = max(total_sections, 1), so that
\* total_citations / den * 50 is kept exact.
validate_content_quality(content) ==
    LET sections       == Get(content, "sections", <<>>)
        total_sections == Len(sections)
        acc            == QualityLoop(sections, 1,
                             [total_citations |-> 0, issues |-> <<>>, suggestions |-> <<>>])
        den            == Max(total_sections, 1)
        citation_num   == Min(acc.total_citations * 50, 50 * den)
        quality_score  == IF Len(acc.issues) = 0 THEN 20 ELSE 10
    IN  [overall_score   |-> [num |-> citation_num
                                        + (structure_score(total_sections) + quality_score) * den,
                              den |-> den],
         issues          |-> acc.issues,
         suggestions     |-> acc.suggestions,
         citations_count |-> acc.total_citations]

-----------------------------------------------------------------------------
(* services/output_generator.py *)

supported_formats == <<"docx", "pdf", "pptx">>

\* An f-string: its literal part f and the value a put into it; a is a content
\* value ([str |-> text] or [list |-> texts]).
Fmt(f, a) == [f |-> f, a |-> a]

Str(string) == [str |-> <<string>>]

Lit(f) == Fmt(f, [str |-> <<>>])

\* What python-docx, reportlab and python-pptx are asked to emit.
add_heading(text, level) == [fn |-> "add_heading", text |-> text, level |-> level]

add_paragraph(text, style) == [fn |-> "add_paragraph", text |-> text, style |-> style]

Paragraph(text, style) == [fn |-> "Paragraph", text |-> text, style |-> style]

Spacer(height) == [fn |-> "Spacer", height |-> height]

add_slide(layout, title, paragraphs) ==
    [fn |-> "add_slide", layout |-> layout, title |-> title, paragraphs |-> paragraphs]

\* A paragraph of a slide's text frame (the frame holds one empty paragraph
\* after clear()).
P(text, size) == [text |-> text, size |-> size]

EmptyP == [text |-> Lit(""), size |-> 0]

IsListValue(content_text) == "list" \in DOMAIN content_text

\* What one renderer emits for a section present in the content.
RenderSection(format, section_template, section_content) ==
    LET section_title == section_template.title
        content_text  == Get(section_content, "content", [str |-> <<>>])
        content_type  == Get(section_template, "content_type", "text")
        citations     == Get(section_content, "citations", <<>>)
        as_list       == content_type = "list" /\ IsListValue(content_text)
        cite(c)       == Fmt("U+2022 {}", [str |-> Get(c, "full_citation", <<>>)])
    IN  CASE format = "docx" ->
               <<add_heading(Fmt("{}", Str(section_title)), 1)>>
               \o (IF as_list
                   THEN [i \in DOMAIN content_text.list |->
                           add_paragraph(Fmt("U+2022 {}", [str |-> content_text.list[i]]), "List Bullet")]
                   ELSE <<add_paragraph(Fmt("{}", content_text), "Normal")>>)
               \o (IF citations # <<>>
                   THEN <<add_paragraph(Lit("Sources:"), "Heading 3")>>
                        \o [i \in DOMAIN citations |-> add_paragraph(cite(citations[i]), "List Bullet")]
                   ELSE <<>>)
               \o <<add_paragraph(Lit(""), "Normal")>>
          [] format = "pdf" ->
               <<Paragraph(Fmt("{}", Str(section_title)), "CustomHeading")>>
               \o (IF as_list
                   THEN [i \in DOMAIN content_text.list |->
                           Paragraph(Fmt("U+2022 {}", [str |-> content_text.list[i]]), "Normal")]
                   ELSE <<Paragraph(Fmt("{}", content_text), "Normal")>>)
               \o (IF citations # <<>>
                   THEN <<Paragraph(Lit("Sources:"), "Heading3")>>
                        \o [i \in DOMAIN citations |-> Paragraph(cite(citations[i]), "Normal")]
                   ELSE <<>>)
               \o <<Spacer(12)>>
          [] format = "pptx" ->
               <<add_slide(1, Fmt("{}", Str(section_title)),
                    IF as_list
                    THEN IF content_text.list = <<>> THEN <<EmptyP>>
                         ELSE [i \in DOMAIN content_text.list |->
                                 P(Fmt("U+2022 {}", [str |-> content_text.list[i]]), 18)]
                    ELSE <<P(Fmt("{}", content_text), 18)>>)>>
               \o (IF Len(citations) > 3
                   THEN <<add_slide(1, Fmt("{} - Sources", Str(section_title)),
                             <<EmptyP>> \o [i \in DOMAIN citations |-> P(cite(citations[i]), 14)])>>
                   ELSE <<>>)

\* The section loop of a renderer driven by the entries of content['sections']
\* instead of the template's list.
RECURSIVE RenderLoopByContent(_, _, _, _)
RenderLoopByContent(format, sections, content_sections, k) ==
    IF k > Len(content_sections) THEN [raised |-> FALSE, elements |-> <<>>]
    ELSE LET here == SelectSeq(sections, LAMBDA st : st.id = content_sections[k].k)
             rest == RenderLoopByContent(format, sections, content_sections, k + 1)
         IN  IF here = <<>> THEN rest
             ELSE [raised   |-> FALSE,
                   elements |-> RenderSection(format, here[1], content_sections[k].v)
                                   \o rest.elements]

\* The section loop shared by _generate_docx, _generate_pdf and _generate_pptx,
\* from the k-th template section on.
RECURSIVE RenderLoop(_, _, _, _)
RenderLoop(format, sections, content_sections, k) ==
    IF k > Len(sections) THEN [raised |-> FALSE, elements |-> <<>>]
    ELSE LET section_template == sections[k] IN
         IF ~IsDict(section_template) \/ "id" \notin DOMAIN section_template
            \/ "title" \notin DOMAIN section_template
         THEN [raised |-> TRUE]
         ELSE LET rest == RenderLoop(format, sections, content_sections, k + 1) IN
              IF rest.raised THEN rest
              ELSE IF OHas(content_sections, section_template.id)
              THEN [raised   |-> FALSE,
                    elements |-> RenderSection(format, section_template,
                                               OGet(content_sections, section_template.id))
                                    \o rest.elements]
              ELSE rest

\* What each renderer emits before the sections: the title and the metadata.
Preamble(format, content, template) ==
    LET name     == Get(Get(template, "metadata", <<>>), "name",
                        IF format = "pptx" THEN "Generated Presentation"
                        ELSE "Generated Document")
        metadata == Get(content, "metadata", <<>>)
        at       == Get(metadata, "generated_at", "Unknown")
        sources  == Get(metadata, "sources_used", <<>>)
        joined   == [list |-> [i \in DOMAIN sources |-> <<sources[i]>>]]
    IN  CASE format = "docx" ->
               <<add_heading(Fmt("{}", Str(name)), 0)>>
               \o (IF DOMAIN metadata # {}
                   THEN <<add_paragraph(Fmt("Generated: {}", Str(at)), "Normal"),
                          add_paragraph(Fmt("Sources: {}", joined), "Normal"),
                          add_paragraph(Lit(""), "Normal")>>
                   ELSE <<>>)
          [] format = "pdf" ->
               <<Paragraph(Fmt("{}", Str(name)), "CustomTitle"), Spacer(20)>>
               \o (IF DOMAIN metadata # {}
                   THEN <<Paragraph(Fmt("Generated: {}", Str(at)), "Normal"),
                          Paragraph(Fmt("Sources: {}", joined), "Normal"),
                          Spacer(20)>>
                   ELSE <<>>)
          [] format = "pptx" ->
               <<add_slide(0, Fmt("{}", Str(name)), <<P(Fmt("Generated: {}", Str(at)), 0)>>)>>

\* _generate_docx / _generate_pdf / _generate_pptx: the elements of the saved
\* file, or the exception raised before anything is saved.
Render(format, content, template) ==
    IF ~IsDict(template) \/ ~IsDict(content) THEN [raised |-> TRUE]
    ELSE LET structure == Get(template, "structure", <<>>) IN
         IF "sections_nonlist" \in DOMAIN structure THEN [raised |-> TRUE]
         ELSE LET r == RenderLoop(format, Get(structure, "sections", <<>>),
                                  Get(content, "sections", <<>>), 1)
              IN  IF r.raised THEN r
                  ELSE [raised   |-> FALSE,
                        elements |-> Preamble(format, content, template) \o r.elements]

\* generate_output that renders an unknown format as docx instead of refusing it.
generate_output_fallback(content, template, format, now) ==
    LET r == Render(IF format \in Range(supported_formats) THEN format ELSE "docx",
                    content, template) IN
    IF r.raised THEN [raised |-> TRUE, error |-> "render", rendered |-> TRUE]
    ELSE [raised   |-> FALSE,
          rendered |-> TRUE,
          file     |-> [path     |-> [timestamp |-> now, format |-> format],
                        elements |-> r.elements]]

\* generate_output(content, template, format, output_dir) at clock second now:
\* the ValueError for an unknown format, the renderer's exception, or the file.
generate_output(content, template, format, now) ==
    IF format \notin Range(supported_formats)
    THEN [raised |-> TRUE, error |-> "Unsupported format", rendered |-> FALSE]
    ELSE LET r == Render(format, content, template) IN
         IF r.raised THEN [raised |-> TRUE, error |-> "render", rendered |-> TRUE]
         ELSE [raised   |-> FALSE,
               rendered |-> TRUE,
               file     |-> [path     |-> [timestamp |-> now, format |-> format],
                             elements |-> r.elements]]

-----------------------------------------------------------------------------
(* Callers of the template engine: the inputs drawn for each operation *)

EngineIds == {"a", "b", "c"}

UniqueIds(sections) ==
    \A i, j \in DOMAIN sections : i # j => sections[i].id # sections[j].id

Template(sections) ==
    [metadata   |-> DefaultMetadata,
     structure  |-> [sections |-> sections],
     style      |-> DefaultStyle,
     formatting |-> DefaultFormatting]

TitleOf(id) ==
    CASE id = "a" -> "Title A" [] id = "b" -> "Title B" [] id = "c" -> "Title C"
      [] OTHER -> "T"

\* A dict with the keys K of a section, the id being id.
SectionWith(K, id, order) ==
    [k \in K |-> CASE k = "id" -> id
                   [] k = "title" -> TitleOf(id)
                   [] k = "order" -> order
                   [] k = "required" -> TRUE
                   [] k = "content_type" -> "list"]

PlainSections == {SectionWith({"id", "title", "order"}, id, o) : id \in EngineIds, o \in 1..MaxOrder}

\* The section dicts handed to add_section: "title" and any of the other keys.
AddInputs ==
    {SectionWith({"title"} \cup K1 \cup K2 \cup K3, "b", o) :
        K1 \in {{}, {"id"}}, K2 \in {{}, {"order"}},
        K3 \in {{}, {"required", "content_type"}}, o \in 1..MaxOrder}

NoOp == [op |-> "none"]

InitRest ==
    /\ sessions = <<>>
    /\ outputs = {}
    /\ uploads = <<>>
    /\ generated = {}
    /\ resp = NoOp

-----------------------------------------------------------------------------
(* validate_template on any template *)

\* Section values of a posted template: any subset of the three required keys, or no dict.
AnySections ==
    {NonDict} \cup {SectionWith(K, id, 1) : K \in SUBSET {"id", "title", "order"}, id \in {"a", "b"}}

AnyStructures ==
    {<<>>, [sections_nonlist |-> "x"]}
        \cup {[sections |-> secs] : secs \in SeqsUpTo(AnySections, MaxPosted)}

AnyTemplates ==
    {[k \in K |-> CASE k = "metadata" -> DefaultMetadata
                    [] k = "style" -> DefaultStyle
                    [] k = "formatting" -> DefaultFormatting
                    [] k = "structure" -> st] :
        K \in SUBSET {"metadata", "structure", "style", "formatting"}, st \in AnyStructures}

InitValidate == tpl \in AnyTemplates /\ InitRest

Validate ==
    /\ resp.op = "none"
    /\ resp' = [op |-> "validate_template", before |-> tpl, result |-> validate_template(tpl)]
    /\ UNCHANGED <<tpl, sessions, outputs, generated, uploads>>

SpecValidate == InitValidate /\ [][Validate]_vars

-----------------------------------------------------------------------------
(* add_section on any template with sections *)

InitAdd ==
    /\ tpl \in {Template(secs) : secs \in SeqsUpTo(PlainSections, MaxSections - 1)}
    /\ InitRest

AddSection(section) ==
    /\ resp.op = "none"
    /\ tpl' = add_section(tpl, section)
    /\ resp' = [op |-> "add_section", before |-> tpl, section |-> section]
    /\ UNCHANGED <<sessions, outputs, generated, uploads>>

SpecAdd == InitAdd /\ [][\E section \in AddInputs : AddSection(section)]_vars

-----------------------------------------------------------------------------
(* reorder_sections on any template with sections *)

\* Section lists as the engine leaves them: order is the place in the list.
Numbered(ids) == [k \in DOMAIN ids |-> SectionWith({"id", "title", "order"}, ids[k], k)]

InitReorder ==
    /\ tpl \in {Template(Numbered(ids)) : ids \in SeqsUpTo(EngineIds, MaxSections)}
    /\ InitRest

ReorderSections(new_order) ==
    /\ resp.op = "none"
    /\ tpl' = reorder_sections(tpl, new_order)
    /\ resp' = [op |-> "reorder_sections", before |-> tpl, new_order |-> new_order]
    /\ UNCHANGED <<sessions, outputs, generated, uploads>>

SpecReorder ==
    InitReorder
    /\ [][\E new_order \in SeqsUpTo(EngineIds \cup {"zz"}, MaxOrderLen) :
            ReorderSections(new_order)]_vars

-----------------------------------------------------------------------------
(* A caller editing one template: sections added without an id, sections   *)
(* removed, sections reordered by duplicate-free id lists                  *)

EditIds == EngineIds \cup {SectionName(n) : n \in 1..MaxSections}

InitEdit ==
    /\ tpl \in {Template(Numbered(ids)) :
                  ids \in {x \in SeqsUpTo(EngineIds, MaxSections - 1) : x # <<>> /\ Distinct(x)}}
    /\ InitRest

EditAdd ==
    /\ Len(Sections(tpl)) < MaxSections
    /\ tpl' = add_section(tpl, [title |-> "T"])
    /\ resp' = [op |-> "add_section"]
    /\ UNCHANGED <<sessions, outputs, generated, uploads>>

EditRemove(section_id) ==
    /\ tpl' = remove_section(tpl, section_id)
    /\ resp' = [op |-> "remove_section"]
    /\ UNCHANGED <<sessions, outputs, generated, uploads>>

EditReorder(new_order) ==
    /\ Distinct(new_order)
    /\ tpl' = reorder_sections(tpl, new_order)
    /\ resp' = [op |-> "reorder_sections"]
    /\ UNCHANGED <<sessions, outputs, generated, uploads>>

NextEdit ==
    \/ EditAdd
    \/ \E section_id \in EditIds : EditRemove(section_id)
    \/ \E new_order \in SeqsUpTo(EditIds, MaxOrderLen) : EditReorder(new_order)

SpecEdit == InitEdit /\ [][NextEdit]_vars

-----------------------------------------------------------------------------
(* generate_content on any template, with any outcome of each AI call *)

\* Completions of the AI capability: a bulleted list, and prose with a citation.
ListText == <<"-", " ", "first", "\n", "3", ".", " ", "third">>

CitedText == <<"Revenue", " ", "grew", " ", "[", "Acme", ":", " ", "p4", "]">>

AIOutcomes ==
    {Completion(ListText), Completion(CitedText),
     Failure(<<"quota exceeded">>), Failure(<<"404", " ", "models">>),
     Failure(<<"API key", " ", "invalid">>), Failure(<<>>)}

GenSections ==
    {SectionWith(K, id, 1) : K \in {{"id", "title", "order"}, {"id", "title", "order", "content_type"}},
                             id \in EngineIds}

InitGenerate ==
    /\ tpl \in {Template(secs) : secs \in SeqsUpTo(GenSections, MaxGenSections)}
    /\ InitRest

Generate(ai) ==
    /\ resp.op = "none"
    /\ Len(ai) = Len(Sections(tpl))
    /\ resp' = [op |-> "generate_content", template |-> tpl, ai |-> ai,
                result |-> generate_content(tpl, <<>>, ai)]
    /\ UNCHANGED <<tpl, sessions, outputs, generated, uploads>>

SpecGenerate ==
    InitGenerate /\ [][\E ai \in SeqsUpTo(AIOutcomes, MaxGenSections) : Generate(ai)]_vars

-----------------------------------------------------------------------------
(* generate_output on any template and any generated content *)

RenderIds == {"a", "b"}

Citation(n) == [source |-> <<"Acme">>, location |-> <<"p", SectionName(n)>>,
                full_citation |-> <<"Acme", ":", " ", "p", SectionName(n)>>]

\* Section results: prose without citations, a list with one citation, prose
\* with four citations.
ResultsOf(id) ==
    {[title |-> TitleOf(id), content |-> [str |-> <<"body">>], citations |-> <<>>,
      word_count |-> 1, type |-> "text"],
     [title |-> TitleOf(id), content |-> [list |-> <<<<"one">>, <<"two">>>>],
      citations |-> <<Citation(1)>>, word_count |-> 4, type |-> "list"],
     [title |-> TitleOf(id), content |-> [str |-> <<"body">>],
      citations |-> [n \in 1..4 |-> Citation(n)], word_count |-> 1, type |-> "text"]}

\* The dicts content['sections'] can be, entries in any insertion order.
RECURSIVE ContentSections(_)
ContentSections(n) ==
    IF n = 0 THEN {<<>>}
    ELSE LET shorter == ContentSections(n - 1) IN
         shorter \cup UNION {{Append(d, [k |-> id, v |-> v]) : v \in ResultsOf(id)} :
                                d \in {d \in shorter : Len(d) = n - 1},
                                id \in RenderIds}

GeneratedContents ==
    {[metadata |-> [generated_at |-> "2024-01-01T00:00:00Z",
                    template_name |-> DefaultMetadata.name, sources_used |-> <<"a.pdf">>],
      sections |-> d] :
        d \in {d \in ContentSections(MaxRender) : Distinct(OKeys(d))}}

RenderSectionList ==
    {SectionWith(K, id, 1) : K \in {{"id", "title", "order"}, {"id", "title", "order", "content_type"}},
                             id \in RenderIds}

InitRender ==
    /\ tpl \in {Template(secs) : secs \in SeqsUpTo(RenderSectionList, MaxRender)}
    /\ sessions = <<>>
    /\ outputs = {}
    /\ uploads = <<>>
    /\ generated = {}
    /\ \E content \in GeneratedContents, format \in Range(supported_formats) \cup {"txt"} :
          resp = [op |-> "none", content |-> content, format |-> format]

GenerateOutput ==
    /\ resp.op = "none"
    /\ LET r == generate_output(resp.content, tpl, resp.format, 0) IN
       /\ resp' = [op |-> "generate_output", content |-> resp.content,
                   format |-> resp.format, result |-> r]
       /\ outputs' = IF r.raised THEN outputs ELSE outputs \cup {r.file.path}
    /\ UNCHANGED <<tpl, sessions, generated, uploads>>

SpecRender == InitRender /\ [][GenerateOutput]_vars

-----------------------------------------------------------------------------
(* generate_output on templates and contents a renderer may fail on *)

\* Section templates as the session store can hold them: whole, without a
\* title, without an id.
FaultySectionList ==
    {SectionWith(K, id, 1) : K \in {{"id", "title", "order"}, {"id", "order"}, {"title", "order"}},
                             id \in RenderIds}

\* Contents as refine can store them: a generated content, or a JSON value
\* that is no object.
FaultyContents ==
    {c \in GeneratedContents : \A i \in DOMAIN c.sections : c.sections[i].v.citations = <<>>}
        \cup {NonDict}

InitRenderFaulty ==
    /\ tpl \in {Template(secs) : secs \in SeqsUpTo(FaultySectionList, MaxRender)}
    /\ sessions = <<>>
    /\ outputs = {}
    /\ uploads = <<>>
    /\ generated = {}
    /\ \E content \in FaultyContents, format \in Range(supported_formats) \cup {"txt"} :
          resp = [op |-> "none", content |-> content, format |-> format]

SpecRenderFaulty == InitRenderFaulty /\ [][GenerateOutput]_vars

-----------------------------------------------------------------------------
(* services/multimodal_processor.py *)

\* os.path.splitext(filename)[1].lower(), for the file names of the model.
Extension(filename) ==
    CASE filename = "a.pdf" -> ".pdf"
      [] filename = "b.PDF" -> ".pdf"
      [] filename = "../a.pdf" -> ".pdf"
      [] filename = "my notes.xyz" -> ".xyz"
      [] OTHER -> ""

supported_types == {".pdf", ".pptx", ".docx", ".xlsx", ".xls", ".png", ".jpg", ".jpeg",
                    ".mp3", ".wav", ".mp4", ".avi"}

\* ext[1:]
WithoutDot(ext) ==
    CASE ext = ".pdf" -> "pdf" [] ext = ".pptx" -> "pptx" [] ext = ".docx" -> "docx"
      [] ext = ".xlsx" -> "xlsx" [] ext = ".xls" -> "xls" [] ext = ".png" -> "png"
      [] ext = ".jpg" -> "jpg" [] ext = ".jpeg" -> "jpeg" [] ext = ".mp3" -> "mp3"
      [] ext = ".wav" -> "wav" [] ext = ".mp4" -> "mp4" [] ext = ".avi" -> "avi"
      [] OTHER -> ""

get_file_type(filename) ==
    IF Extension(filename) \in supported_types THEN WithoutDot(Extension(filename))
    ELSE "unknown"

\* process_file(file_path, filename); extracted is what the extractor of the
\* type makes of the file: [ok |-> TRUE, value |-> its dict] or
\* [ok |-> FALSE, msg |-> the message of the exception it raises].
process_file(filename, extracted) ==
    LET file_type == get_file_type(filename) IN
    IF file_type \notin {WithoutDot(ext) : ext \in supported_types}
    THEN [type |-> "unsupported", content |-> <<>>,
          metadata |-> [error |-> "Unsupported file type"]]
    ELSE IF extracted.ok THEN extracted.value
    ELSE [type |-> file_type, content |-> <<>>, metadata |-> [error |-> extracted.msg]]

-----------------------------------------------------------------------------
(* app.py *)

\* The default template, abridged to two of its seven sections.
DefaultTemplate ==
    [metadata   |-> DefaultMetadata,
     structure  |-> [sections |->
        <<[id |-> "executive_summary", title |-> "Executive Summary", order |-> 1,
           required |-> TRUE, content_type |-> "text"],
          [id |-> "findings", title |-> "Key Findings", order |-> 4,
           required |-> TRUE, content_type |-> "list"]>>],
     style      |-> DefaultStyle,
     formatting |-> DefaultFormatting,
     output_formats |-> <<"docx", "pdf", "pptx">>,
     citation_style |-> "apa"]

get_default_template == DefaultTemplate

NewSession ==
    [files |-> <<>>, template |-> get_default_template,
     extracted_content |-> <<>>, generated_content |-> <<>>]

\* werkzeug's secure_filename, for the file names of the model.
\* "U+6587U+6863" stands for a name of two CJK characters, of which
\* secure_filename keeps nothing.
secure_filename(filename) ==
    CASE filename = "my notes.xyz" -> "my_notes.xyz"
      [] filename = "../a.pdf" -> "a.pdf"
      [] filename = "U+6587U+6863" -> ""
      [] OTHER -> filename

\* bool(x) of a JSON value: a dict is true when it has a key; the non-dict
\* values of the model are non-empty lists.
Truthy(v) == IF IsDict(v) THEN DOMAIN v # {} ELSE TRUE

Known(session_id) == session_id \in DOMAIN sessions

\* "if session_id not in active_sessions: active_sessions[session_id] = {...}"
Ensure(store, session_id) ==
    IF session_id \in DOMAIN store THEN store ELSE DictSet(store, session_id, NewSession)

\* What the model keeps of a request and its response: the route, the session id
\* and the HTTP status, how many AI calls and whether a renderer ran, and the
\* route's own argument (posted template, parse outcome, format, uploaded
\* files) and the path of the file sent back.
Reply(op, session_id, status) ==
    [op |-> op, sid |-> session_id, status |-> status, ai_calls |-> 0, rendered |-> FALSE,
     template |-> <<>>, parsed |-> FALSE, format |-> "", path |-> <<>>, files |-> <<>>]

\* The loop of upload_files over the files of the request, on one session
\* dict, with the first extraction of a name kept instead of the last.
RECURSIVE UploadLoopKeepFirst(_, _, _)
UploadLoopKeepFirst(session, files, k) ==
    IF k > Len(files) THEN [session |-> session, raised |-> FALSE]
    ELSE IF files[k].filename = "" THEN UploadLoopKeepFirst(session, files, k + 1)
    ELSE LET filename == secure_filename(files[k].filename)
             content  == process_file(files[k].filename, files[k].extracted)
         IN  IF filename = "" THEN [session |-> session, raised |-> TRUE]
             ELSE UploadLoopKeepFirst(
                [session EXCEPT
                    !.files = Append(@, [filename |-> filename,
                                         path     |-> <<"uploads", filename>>,
                                         type     |-> get_file_type(files[k].filename)]),
                    !.extracted_content =
                        IF OHas(@, filename) THEN @ ELSE OSet(@, filename, content)],
                files, k + 1)

\* The loop of upload_files over the files of the request, on one session dict:
\* a file without a name is skipped; file.save raises when secure_filename
\* leaves no name (the path is then the upload directory itself), with the
\* files before it already stored.
RECURSIVE UploadLoop(_, _, _)
UploadLoop(session, files, k) ==
    IF k > Len(files) THEN [session |-> session, raised |-> FALSE]
    ELSE IF files[k].filename = "" THEN UploadLoop(session, files, k + 1)
    ELSE LET filename == secure_filename(files[k].filename)
             content  == process_file(files[k].filename, files[k].extracted)
         IN  IF filename = "" THEN [session |-> session, raised |-> TRUE]
             ELSE UploadLoop(
                [session EXCEPT
                    !.files = Append(@, [filename |-> filename,
                                         path     |-> <<"uploads", filename>>,
                                         type     |-> get_file_type(files[k].filename)]),
                    !.extracted_content = OSet(@, filename, content)],
                files, k + 1)

\* What file.save writes: the bytes of an uploaded file, identified by what an
\* extractor reads from them.
BytesOf(file) == file.extracted

\* The file.save calls of the loop of upload_files: each named file is written
\* to UPLOAD_FOLDER/secure_filename(name), replacing a file that is there;
\* the loop ends at a file whose save raises.
RECURSIVE SaveLoop(_, _, _)
SaveLoop(disk, files, k) ==
    IF k > Len(files) THEN disk
    ELSE IF files[k].filename = "" THEN SaveLoop(disk, files, k + 1)
    ELSE LET filename == secure_filename(files[k].filename) IN
         IF filename = "" THEN disk
         ELSE SaveLoop(DictSet(disk, <<"uploads", filename>>, BytesOf(files[k])),
                       files, k + 1)

\* POST /api/upload of a request that has a files part
api_upload(session_id, files) ==
    LET r == UploadLoop(Ensure(sessions, session_id)[session_id], files, 1) IN
    /\ sessions' = [Ensure(sessions, session_id) EXCEPT ![session_id] = r.session]
    /\ uploads' = SaveLoop(uploads, files, 1)
    /\ resp' = [Reply("upload", session_id, IF r.raised THEN 500 ELSE 200)
                  EXCEPT !.files = files]
    /\ UNCHANGED <<tpl, outputs, generated>>

\* GET /api/template
api_template_get(session_id) ==
    /\ resp' = Reply("getTemplate", session_id, 200)
    /\ UNCHANGED <<tpl, sessions, outputs, generated, uploads>>

\* POST or PUT /api/template that discards the content generated under the
\* previous template.
api_template_post_resetting(session_id, template) ==
    /\ sessions' = [Ensure(sessions, session_id) EXCEPT
                        ![session_id].template = template,
                        ![session_id].generated_content = <<>>]
    /\ resp' = [Reply("setTemplate", session_id,
                      IF validate_template(template).ok THEN 200 ELSE 500)
                  EXCEPT !.template = template]
    /\ UNCHANGED <<tpl, outputs, generated, uploads>>

\* POST or PUT /api/template
api_template_post(session_id, template) ==
    /\ sessions' = [Ensure(sessions, session_id) EXCEPT ![session_id].template = template]
    /\ resp' = [Reply("setTemplate", session_id,
                      IF validate_template(template).ok THEN 200 ELSE 500)
                  EXCEPT !.template = template]
    /\ UNCHANGED <<tpl, outputs, generated, uploads>>

\* The number of AI calls generate_content makes on a template when none raises
\* outside the try block: one per section.
CallsFor(template) ==
    IF IsDict(template) /\ "structure" \in DOMAIN template
       /\ SectionsIsList(template.structure)
    THEN Len(Sections(template)) ELSE 0

\* POST /api/generate that creates the session it does not find.
api_generate_creating(session_id, ai) ==
    LET store   == Ensure(sessions, session_id)
        session == store[session_id]
        r       == generate_content(session.template, session.extracted_content, ai)
    IN  /\ Len(ai) = CallsFor(session.template)
        /\ sessions' = IF r.raised THEN store
                       ELSE [store EXCEPT ![session_id].generated_content = r.value]
        /\ generated' = IF r.raised THEN generated ELSE generated \cup {session_id}
        /\ resp' = [Reply("generate", session_id, IF r.raised THEN 500 ELSE 200)
                      EXCEPT !.ai_calls = r.ai_calls]
        /\ UNCHANGED <<tpl, outputs, uploads>>

\* POST /api/generate
api_generate(session_id, ai) ==
    IF ~Known(session_id)
    THEN /\ ai = <<>>
         /\ resp' = Reply("generate", session_id, 404)
         /\ UNCHANGED <<tpl, sessions, outputs, generated, uploads>>
    ELSE LET session == sessions[session_id]
             r       == generate_content(session.template, session.extracted_content, ai)
         IN  /\ Len(ai) = CallsFor(session.template)
             /\ sessions' = IF r.raised THEN sessions
                            ELSE [sessions EXCEPT ![session_id].generated_content = r.value]
             /\ generated' = IF r.raised THEN generated ELSE generated \cup {session_id}
             /\ resp' = [Reply("generate", session_id, IF r.raised THEN 500 ELSE 200)
                           EXCEPT !.ai_calls = r.ai_calls]
             /\ UNCHANGED <<tpl, outputs, uploads>>

\* POST /api/refine; outcome is what the one AI call and json.loads yield.
api_refine(session_id, outcome) ==
    IF ~Known(session_id)
    THEN /\ resp' = [Reply("refine", session_id, 404) EXCEPT !.parsed = outcome.ok]
         /\ UNCHANGED <<tpl, sessions, outputs, generated, uploads>>
    ELSE LET r == refine_content(sessions[session_id].generated_content, outcome) IN
         /\ sessions' = IF r.raised THEN sessions
                        ELSE [sessions EXCEPT ![session_id].generated_content = r.value]
         /\ resp' = [Reply("refine", session_id, IF r.raised THEN 500 ELSE 200)
                       EXCEPT !.ai_calls = 1, !.parsed = outcome.ok]
         /\ UNCHANGED <<tpl, outputs, generated, uploads>>

\* POST /api/export/<format> without the test for empty content.
api_export_unchecked(session_id, format, now) ==
    IF ~Known(session_id)
    THEN /\ resp' = [Reply("export", session_id, 404) EXCEPT !.format = format]
         /\ UNCHANGED <<tpl, sessions, outputs, generated, uploads>>
    ELSE LET session == sessions[session_id]
             r == generate_output(session.generated_content, session.template, format, now)
         IN  /\ outputs' = IF r.raised THEN outputs ELSE outputs \cup {r.file.path}
             /\ resp' = [Reply("export", session_id, IF r.raised THEN 500 ELSE 200)
                           EXCEPT !.rendered = r.rendered, !.format = format]
             /\ UNCHANGED <<tpl, sessions, generated, uploads>>

\* POST /api/export/<format> at clock second now
api_export(session_id, format, now) ==
    IF ~Known(session_id)
    THEN /\ resp' = [Reply("export", session_id, 404) EXCEPT !.format = format]
         /\ UNCHANGED <<tpl, sessions, outputs, generated, uploads>>
    ELSE IF ~Truthy(sessions[session_id].generated_content)
    THEN /\ resp' = [Reply("export", session_id, 400) EXCEPT !.format = format]
         /\ UNCHANGED <<tpl, sessions, outputs, generated, uploads>>
    ELSE LET session == sessions[session_id]
             r == generate_output(session.generated_content, session.template, format, now)
         IN  /\ outputs' = IF r.raised THEN outputs ELSE outputs \cup {r.file.path}
             /\ resp' = [Reply("export", session_id, IF r.raised THEN 500 ELSE 200)
                           EXCEPT !.rendered = r.rendered, !.format = format,
                                  !.path = IF r.raised THEN <<>> ELSE r.file.path]
             /\ UNCHANGED <<tpl, sessions, generated, uploads>>

\* GET /api/session/<session_id>
api_session(session_id) ==
    /\ resp' = Reply("getSession", session_id, IF Known(session_id) THEN 200 ELSE 404)
    /\ UNCHANGED <<tpl, sessions, outputs, generated, uploads>>

\* socket event template_update that opens the session it does not find.
handle_template_update_creating(session_id, template) ==
    /\ sessions' = [Ensure(sessions, session_id) EXCEPT ![session_id].template = template]
    /\ resp' = Reply("template_update", session_id, 200)
    /\ UNCHANGED <<tpl, outputs, generated, uploads>>

\* socket event template_update
handle_template_update(session_id, template) ==
    /\ sessions' = IF Known(session_id)
                   THEN [sessions EXCEPT ![session_id].template = template]
                   ELSE sessions
    /\ resp' = Reply("template_update", session_id, 200)
    /\ UNCHANGED <<tpl, outputs, generated, uploads>>

-----------------------------------------------------------------------------
(* Clients of the application *)

SessionIds == {"s1", "s2"}

\* The ids under which clients upload files or post templates; the other id is
\* one no session is ever opened for.
OpenedIds == {"s1"}

\* What _process_pdf returns for a readable file uploaded as filename.
PdfExtractionOf(filename) ==
    [ok |-> TRUE,
     value |-> [type |-> "pdf", content |-> <<[page |-> 1, text |-> <<"text">>, type |-> "text"]>>,
                metadata |-> [pages |-> 1], filename |-> filename]]

PdfExtraction == PdfExtractionOf("a.pdf")

\* Whether the session can take the files of a request without exceeding limit.
Room(session_id, files, limit) ==
    Len(Ensure(sessions, session_id)[session_id].files) + Len(files) <= limit

\* The file lists of the upload requests: one PDF, or one file of a type no
\* extractor handles (for which no extractor runs).
AppUploads ==
    {<<[filename |-> "a.pdf", extracted |-> PdfExtraction]>>,
     <<[filename |-> "my notes.xyz", extracted |-> Failure(<<>>)]>>}

\* Templates a client posts: a valid one, and the same without "style".
CustomTemplate ==
    [Template(<<[id |-> "intro", title |-> "Introduction", order |-> 1,
                 content_type |-> "list"]>>)
        EXCEPT !.metadata = [name |-> "Custom", version |-> "1.0"]]

NoStyleTemplate == [k \in {"metadata", "structure", "formatting"} |-> CustomTemplate[k]]

PostedTemplates == {CustomTemplate, NoStyleTemplate}

AppOutcomes == {Completion(CitedText), Failure(<<"quota exceeded">>)}

\* What the model returns to a refinement prompt, after json.loads: a content
\* with one section, the empty object, a list; or text that is no JSON.
RefinedContent ==
    [metadata |-> [generated_at |-> "2024-01-01T00:00:00Z", template_name |-> "Custom",
                   sources_used |-> <<>>],
     sections |-> <<[k |-> "intro",
                     v |-> [title |-> "Introduction", content |-> [str |-> <<"refined">>],
                            citations |-> <<>>, word_count |-> 1, type |-> "text"]]>>]

RefineOutcomes ==
    {Parsed(RefinedContent), Parsed(<<>>), Parsed([_scalar |-> "list"]),
     Failure(<<"Expecting value">>)}

ExportFormats == {"docx", "pdf", "pptx", "txt"}

InitApp ==
    /\ tpl = DefaultTemplate
    /\ sessions = <<>>
    /\ outputs = {}
    /\ uploads = <<>>
    /\ generated = {}
    /\ resp = NoOp

NextApp ==
    \/ \E session_id \in OpenedIds, files \in AppUploads :
          Room(session_id, files, MaxFiles) /\ api_upload(session_id, files)
    \/ \E session_id \in SessionIds : api_template_get(session_id)
    \/ \E session_id \in OpenedIds, template \in PostedTemplates :
          api_template_post(session_id, template)
    \/ \E session_id \in SessionIds, ai \in SeqsUpTo(AppOutcomes, 2) :
          api_generate(session_id, ai)
    \/ \E session_id \in SessionIds, outcome \in RefineOutcomes :
          api_refine(session_id, outcome)
    \/ \E session_id \in SessionIds, format \in ExportFormats :
          api_export(session_id, format, 0)
    \/ \E session_id \in SessionIds : api_session(session_id)
    \/ \E session_id \in SessionIds, template \in PostedTemplates :
          handle_template_update(session_id, template)

SpecApp == InitApp /\ [][NextApp]_vars

-----------------------------------------------------------------------------
(* _extract_citations on any completion text *)

\* Pieces of completion text: a citation as the prompt asks for it, one without
\* blanks, a bracketed span without ":", stray brackets, colon, blank, a word.
TextChunks ==
    {<<"[", "Acme", " ", "Report", ":", " ", "page", " ", "4", "]">>,
     <<"[", "y", ":", "x", ":", "z", "]">>,
     <<"[", "x", "]">>,
     <<"[">>, <<"]">>, <<":">>, <<" ">>, <<"grew">>}

RECURSIVE Concat(_)
Concat(ss) == IF ss = <<>> THEN <<>> ELSE Head(ss) \o Concat(Tail(ss))

Texts == {Concat(cs) : cs \in SeqsUpTo(TextChunks, MaxChunks)}

InitCitations ==
    /\ tpl = DefaultTemplate
    /\ sessions = <<>>
    /\ outputs = {}
    /\ uploads = <<>>
    /\ generated = {}
    /\ \E text \in Texts : resp = [op |-> "none", text |-> text]

ExtractCitations ==
    /\ resp.op = "none"
    /\ resp' = [op |-> "_extract_citations", text |-> resp.text,
                result |-> _extract_citations(resp.text)]
    /\ UNCHANGED <<tpl, sessions, outputs, generated, uploads>>

SpecCitations == InitCitations /\ [][ExtractCitations]_vars

-----------------------------------------------------------------------------
(* _format_content on any completion text *)

\* Lines of a completion: items marked "-", "*", bullet (one indented), numbered
\* items with one and two digits, prose, prose that starts with a digit and
\* holds a "." further on, a digit without ".", an empty line.
TextLines ==
    {<<"-", " ", "first">>, <<"*", "second">>, <<" ", Bullet, " ", "b">>,
     <<"3", ".", " ", "third">>, <<"1", "0", ".", "tenth">>,
     <<"plain">>, <<"3", " ", "of", " ", "2", ".", "5">>, <<"3", "x">>, <<>>}

\* "\n".join(lines)
RECURSIVE Join(_)
Join(lines) ==
    IF Len(lines) = 1 THEN lines[1] ELSE lines[1] \o <<"\n">> \o Join(Tail(lines))

Completions == {Join(lines) : lines \in SeqsUpTo(TextLines, MaxLines) \ {<<>>}}

InitFormat ==
    /\ tpl = DefaultTemplate
    /\ sessions = <<>>
    /\ outputs = {}
    /\ uploads = <<>>
    /\ generated = {}
    /\ \E content \in Completions, content_type \in {"list", "text"} :
          resp = [op |-> "none", content |-> content, content_type |-> content_type]

FormatContent ==
    /\ resp.op = "none"
    /\ resp' = [op |-> "_format_content", content |-> resp.content,
                content_type |-> resp.content_type,
                result |-> _format_content(resp.content, resp.content_type)]
    /\ UNCHANGED <<tpl, sessions, outputs, generated, uploads>>

SpecFormat == InitFormat /\ [][FormatContent]_vars

-----------------------------------------------------------------------------
(* validate_content_quality on any generated content *)

\* Section results: short prose; prose of 100 and of 101 characters without
\* citations; the latter with an action word, and with a citation; prose with an
\* action word and two citations; a list with an action word in one item.
QualityResults ==
    {[content |-> [str |-> <<"body">>], citations |-> <<>>],
     [content |-> [str |-> <<"lorem100">>], citations |-> <<>>],
     [content |-> [str |-> <<"lorem101">>], citations |-> <<>>],
     [content |-> [str |-> <<"lorem101", " ", "should">>], citations |-> <<>>],
     [content |-> [str |-> <<"lorem101">>], citations |-> <<Citation(1)>>],
     [content |-> [str |-> <<"Recommendation">>], citations |-> <<Citation(1), Citation(2)>>],
     [content |-> [list |-> <<<<"one">>, <<"mustard">>>>], citations |-> <<Citation(1)>>]}

\* The n-th section entry of a generated content, holding result r.
QualityEntry(n, r) ==
    [k |-> SectionName(n),
     v |-> [title |-> SectionName(n), content |-> r.content, citations |-> r.citations,
            word_count |-> 1, type |-> IF "list" \in DOMAIN r.content THEN "list" ELSE "text"]]

QualityContents ==
    {[metadata |-> [generated_at |-> "2024-01-01T00:00:00Z",
                    template_name |-> DefaultMetadata.name, sources_used |-> <<>>],
      sections |-> [n \in DOMAIN rs |-> QualityEntry(n, rs[n])]] :
        rs \in SeqsUpTo(QualityResults, MaxQuality)}

InitQuality ==
    /\ tpl = DefaultTemplate
    /\ sessions = <<>>
    /\ outputs = {}
    /\ uploads = <<>>
    /\ generated = {}
    /\ \E content \in QualityContents : resp = [op |-> "none", content |-> content]

ValidateQuality ==
    /\ resp.op = "none"
    /\ resp' = [op |-> "validate_content_quality", content |-> resp.content,
                result |-> validate_content_quality(resp.content)]
    /\ UNCHANGED <<tpl, sessions, outputs, generated, uploads>>

SpecQuality == InitQuality /\ [][ValidateQuality]_vars

-----------------------------------------------------------------------------
(* Generation and rendering on templates whose section list is in any order *)

OrderedSections ==
    {SectionWith({"id", "title", "order", "content_type"}, id, o) :
        id \in RenderIds, o \in 1..MaxOrder}

\* Templates a client may set: sections of different ids, in any list order.
OrderedTemplates ==
    {Template(secs) : secs \in {s \in SeqsUpTo(OrderedSections, MaxRender) : UniqueIds(s)}}

InitOrder ==
    /\ tpl \in OrderedTemplates
    /\ InitRest
    /\ resp = NoOp

\* update_section changing the order value of a section
OrderUpdate(section_id, order) ==
    /\ resp.op = "none"
    /\ tpl' = update_section(tpl, section_id, [order |-> order])
    /\ resp' = [op |-> "update_section"]
    /\ UNCHANGED <<sessions, outputs, generated, uploads>>

OrderGenerate(ai) ==
    /\ resp.op \in {"none", "update_section"}
    /\ Len(ai) = Len(Sections(tpl))
    /\ resp' = [op |-> "generate_content", result |-> generate_content(tpl, <<>>, ai)]
    /\ UNCHANGED <<tpl, sessions, outputs, generated, uploads>>

OrderRender(format) ==
    /\ resp.op = "generate_content"
    /\ ~resp.result.raised
    /\ LET r == generate_output(resp.result.value, tpl, format, 0) IN
       /\ resp' = [op |-> "generate_output", content |-> resp.result.value,
                   format |-> format, result |-> r]
       /\ outputs' = IF r.raised THEN outputs ELSE outputs \cup {r.file.path}
    /\ UNCHANGED <<tpl, sessions, generated, uploads>>

NextOrder ==
    \/ \E section_id \in RenderIds, order \in 1..MaxOrder : OrderUpdate(section_id, order)
    \/ \E ai \in SeqsUpTo(AppOutcomes, MaxRender) : OrderGenerate(ai)
    \/ \E format \in Range(supported_formats) : OrderRender(format)

SpecOrder == InitOrder /\ [][NextOrder]_vars

-----------------------------------------------------------------------------
(* Two requests on one session running concurrently: generate and refine *)

\* Dicts are objects: heap is the list of the content dicts created so far and
\* ref the index of the one active_sessions[session_id]['generated_content']
\* points to, so that sessions[session_id].generated_content = heap[ref].  Each
\* request runs in three steps: it looks up the session and reads what it
\* needs, the AI service returns, and the route assigns the returned object.

Requests == {1, 2}

RaceSession == "s1"

\* The content the session holds when the two requests arrive: none, or that
\* of an earlier generate.
RaceContents ==
    {<<>>, generate_content(CustomTemplate, <<>>, <<Completion(CitedText)>>).value}

RaceOutcomes == RefineOutcomes \cup {Failure(<<"quota exceeded">>)}

\* The two requests, each with the outcomes of its AI calls: one per section
\* for a generate, one for a refine.
RaceRequests ==
    {[kind |-> "generate", outcome |-> ai] : ai \in [1..1 -> AppOutcomes]}
        \cup {[kind |-> "refine", outcome |-> <<outcome>>] : outcome \in RaceOutcomes}

Request(kind, outcome) ==
    [kind |-> kind, outcome |-> outcome, pc |-> "read", cur |-> 0, result |-> 0,
     returned |-> <<>>, status |-> 0]

InitRace ==
    /\ tpl = DefaultTemplate
    /\ outputs = {}
    /\ uploads = <<>>
    /\ generated = {}
    /\ \E content \in RaceContents, r1, r2 \in RaceRequests :
          /\ sessions = [s \in {RaceSession} |->
                            [NewSession EXCEPT !.template = CustomTemplate,
                                               !.generated_content = content]]
          /\ resp = [op |-> "none", heap |-> <<content>>, ref |-> 1, writers |-> <<>>,
                     procs |-> [p \in Requests |->
                                   IF p = 1 THEN Request(r1.kind, r1.outcome)
                                   ELSE Request(r2.kind, r2.outcome)]]

\* "session = active_sessions[session_id]" and, for refine,
\* session.get('generated_content', {})
RaceRead(p) ==
    /\ resp.procs[p].pc = "read"
    /\ resp' = [resp EXCEPT !.op = "read",
                            !.procs[p].pc = "ai",
                            !.procs[p].cur = IF resp.procs[p].kind = "refine" THEN resp.ref ELSE 0]
    /\ UNCHANGED <<tpl, sessions, outputs, generated, uploads>>

\* ai_service.generate_content or ai_service.refine_content returns or raises.
\* generate_content returns a new dict; refine_content returns what json.loads
\* built, or the dict it was given with refinement_error written into it.
RaceCall(p) ==
    /\ resp.procs[p].pc = "ai"
    /\ LET proc    == resp.procs[p]
           session == sessions[RaceSession]
           r       == IF proc.kind = "generate"
                      THEN generate_content(session.template, session.extracted_content,
                                            proc.outcome)
                      ELSE refine_content(resp.heap[proc.cur], proc.outcome[1])
           inplace == proc.kind = "refine" /\ ~proc.outcome[1].ok
           heap    == IF r.raised THEN resp.heap
                      ELSE IF inplace THEN [resp.heap EXCEPT ![proc.cur] = r.value]
                      ELSE Append(resp.heap, r.value)
       IN  /\ resp' = [resp EXCEPT
                          !.op = "ai",
                          !.heap = heap,
                          !.procs[p] =
                              IF r.raised THEN [proc EXCEPT !.pc = "done", !.status = 500]
                              ELSE [proc EXCEPT !.pc = "write",
                                                !.result = IF inplace THEN proc.cur
                                                           ELSE Len(heap),
                                                !.returned = r.value]]
           /\ sessions' = [sessions EXCEPT ![RaceSession].generated_content = heap[resp.ref]]
    /\ UNCHANGED <<tpl, outputs, generated, uploads>>

\* "session['generated_content'].update(result)"
StoreMerged(current, result) ==
    IF IsDict(current) /\ IsDict(result) THEN DictUpdate(current, result) ELSE result

\* session['generated_content'] = result
Store(current, result) == result

RaceWrite(p) ==
    /\ resp.procs[p].pc = "write"
    /\ sessions' = [sessions EXCEPT ![RaceSession].generated_content =
                        Store(@, resp.heap[resp.procs[p].result])]
    /\ resp' = [resp EXCEPT !.op = "write",
                            !.ref = resp.procs[p].result,
                            !.writers = Append(@, p),
                            !.procs[p].pc = "done",
                            !.procs[p].status = 200]
    /\ UNCHANGED <<tpl, outputs, generated, uploads>>

NextRace == \E p \in Requests : RaceRead(p) \/ RaceCall(p) \/ RaceWrite(p)

SpecRace == InitRace /\ [][NextRace]_vars

-----------------------------------------------------------------------------
(* Templates obtained from get_default_template, edited in place *)

\* Dicts are objects.  The engine's default template is a dict whose values
\* under the keys of TemplateRefs are the dicts objects[ref]; a template as a
\* caller sees it is DerefTemplate of its dict.

TemplateRefs == {"metadata", "structure", "style", "formatting"}

DefaultObjects == [r \in TemplateRefs |-> DefaultTemplate[r]]

DefaultDict ==
    [k \in DOMAIN DefaultTemplate |->
        IF k \in TemplateRefs THEN [ref |-> k] ELSE DefaultTemplate[k]]

\* dict.copy(): a new dict with the same values, the same objects among them.
ShallowCopy(d) == d

DerefTemplate(d, objects) ==
    [k \in DOMAIN d |-> IF k \in TemplateRefs THEN objects[d[k].ref] ELSE d[k]]

\* The objects after an operation that changed, in place, the template of
\* dict d into value: none of the operations assigns a key of d itself.
WriteThrough(d, objects, value) ==
    [r \in DOMAIN objects |->
        LET ks == {k \in TemplateRefs : d[k].ref = r}
        IN  IF ks = {} THEN objects[r] ELSE value[CHOOSE k \in ks : TRUE]]

InitShared ==
    /\ tpl = DefaultTemplate
    /\ sessions = <<>>
    /\ outputs = {}
    /\ uploads = <<>>
    /\ generated = {}
    /\ resp = [op |-> "none", holder |-> "", raised |-> FALSE,
               default |-> DefaultDict, objects |-> DefaultObjects, dicts |-> <<>>]

\* What the engine's default template and the sessions' templates are once
\* the objects are as given.
SharedViews(dicts, objects) ==
    /\ tpl' = DerefTemplate(resp.default, objects)
    /\ sessions' = [s \in DOMAIN dicts |->
                       [files |-> <<>>, template |-> DerefTemplate(dicts[s], objects),
                        extracted_content |-> <<>>, generated_content |-> <<>>]]

\* A session is created with 'template': template_engine.get_default_template()
SharedOpen(session_id) ==
    /\ session_id \notin DOMAIN sessions
    /\ LET dicts == DictSet(resp.dicts, session_id, ShallowCopy(resp.default)) IN
       /\ resp' = [resp EXCEPT !.op = "open", !.holder = session_id, !.raised = FALSE,
                               !.dicts = dicts]
       /\ SharedViews(dicts, resp.objects)
    /\ UNCHANGED <<outputs, generated, uploads>>

\* An in-place operation of the engine on the template of a session, which
\* becomes value.
SharedApply(op, session_id, value) ==
    /\ session_id \in DOMAIN sessions
    /\ LET objects == WriteThrough(resp.dicts[session_id], resp.objects, value) IN
       /\ resp' = [resp EXCEPT !.op = op, !.holder = session_id, !.raised = FALSE,
                               !.objects = objects]
       /\ SharedViews(resp.dicts, objects)
    /\ UNCHANGED <<outputs, generated, uploads>>

SharedAdd(session_id, section) ==
    /\ session_id \in DOMAIN sessions
    /\ Len(Sections(sessions[session_id].template)) < MaxSections
    /\ SharedApply("add_section", session_id,
                   add_section(sessions[session_id].template, section))

SharedRemove(session_id, section_id) ==
    /\ session_id \in DOMAIN sessions
    /\ SharedApply("remove_section", session_id,
                   remove_section(sessions[session_id].template, section_id))

SharedReorder(session_id, new_order) ==
    /\ session_id \in DOMAIN sessions
    /\ SharedApply("reorder_sections", session_id,
                   reorder_sections(sessions[session_id].template, new_order))

SharedStyle(session_id, updates) ==
    /\ session_id \in DOMAIN sessions
    /\ SharedApply("update_style", session_id,
                   update_style(sessions[session_id].template, updates))

SharedFormatting(session_id, updates) ==
    /\ session_id \in DOMAIN sessions
    /\ SharedApply("update_formatting", session_id,
                   update_formatting(sessions[session_id].template, updates))

\* create_custom_template, which edits the dict get_default_template returns
\* to it and hands it to its caller unless validate_template raises.
SharedCustom(name, sections) ==
    LET d       == ShallowCopy(resp.default)
        r       == create_custom_template(DerefTemplate(d, resp.objects), name,
                                          "made to measure", sections)
        objects == WriteThrough(d, resp.objects, r.template)
    IN  /\ resp' = [resp EXCEPT !.op = "create_custom_template", !.holder = "",
                                !.raised = r.raised, !.objects = objects]
        /\ SharedViews(resp.dicts, objects)
        /\ UNCHANGED <<outputs, generated, uploads>>

SharedSectionIds == {"executive_summary", "findings", "b"}

SharedAdded == {[title |-> "T"], SectionWith({"id", "title", "order"}, "b", 1)}

NextShared ==
    \/ \E session_id \in SessionIds : SharedOpen(session_id)
    \/ \E session_id \in SessionIds, section \in SharedAdded : SharedAdd(session_id, section)
    \/ \E session_id \in SessionIds, section_id \in SharedSectionIds :
          SharedRemove(session_id, section_id)
    \/ \E session_id \in SessionIds, new_order \in SeqsUpTo(SharedSectionIds, MaxOrderLen) :
          SharedReorder(session_id, new_order)
    \/ \E session_id \in SessionIds : SharedStyle(session_id, [tone |-> "casual"])
    \/ \E session_id \in SessionIds : SharedFormatting(session_id, [font_family |-> "Times"])
    \/ \E sections \in {<<>>, <<SectionWith({"id", "title", "order"}, "b", 1)>>} :
          SharedCustom("Custom", sections)

SpecShared == InitShared /\ [][NextShared]_vars

-----------------------------------------------------------------------------
(* Uploads of batches of files to one session *)

\* The files a client uploads: a PDF under two names that secure_filename maps
\* to one, a PDF whose extractor raises, a file of no supported type, a file
\* whose name secure_filename empties, a part without a file name.
UploadFiles ==
    {[filename |-> "a.pdf", extracted |-> PdfExtractionOf("a.pdf")],
     [filename |-> "../a.pdf", extracted |-> PdfExtractionOf("../a.pdf")],
     [filename |-> "b.PDF", extracted |-> Failure(<<"EOF marker not found">>)],
     [filename |-> "my notes.xyz", extracted |-> Failure(<<>>)],
     [filename |-> "U+6587U+6863", extracted |-> Failure(<<>>)],
     [filename |-> "", extracted |-> Failure(<<>>)]}

UploadBatches == SeqsUpTo(UploadFiles, MaxBatch) \ {<<>>}

InitUpload ==
    /\ tpl = DefaultTemplate
    /\ sessions = <<>>
    /\ outputs = {}
    /\ uploads = <<>>
    /\ generated = {}
    /\ resp = NoOp

NextUpload ==
    \E session_id \in OpenedIds, files \in UploadBatches :
        Room(session_id, files, MaxUploaded) /\ api_upload(session_id, files)

SpecUpload == InitUpload /\ [][NextUpload]_vars

-----------------------------------------------------------------------------
(* The upload directory under uploads of two sessions *)

\* The files clients upload: a PDF, another file of the same name that no
\* extractor can read, and a file of another name.
SavedFiles ==
    {[filename |-> "a.pdf", extracted |-> PdfExtractionOf("a.pdf")],
     [filename |-> "a.pdf", extracted |-> Failure(<<"EOF marker not found">>)],
     [filename |-> "b.PDF", extracted |-> PdfExtractionOf("b.PDF")]}

InitSaved ==
    /\ tpl = DefaultTemplate
    /\ sessions = <<>>
    /\ outputs = {}
    /\ uploads = <<>>
    /\ generated = {}
    /\ resp = NoOp

NextSaved ==
    \E session_id \in SessionIds, file \in SavedFiles :
        Room(session_id, <<file>>, MaxSaved) /\ api_upload(session_id, <<file>>)

SpecSaved == InitSaved /\ [][NextSaved]_vars

-----------------------------------------------------------------------------
(* Two sessions side by side, every route on either *)

FrameUpload == <<[filename |-> "a.pdf", extracted |-> PdfExtraction]>>

FrameOutcomes == {Completion(CitedText)}

FrameRefines == {Parsed(RefinedContent), Failure(<<"Expecting value">>)}

FrameFormats == {"docx", "txt"}

InitFrame ==
    /\ tpl = DefaultTemplate
    /\ sessions = <<>>
    /\ outputs = {}
    /\ uploads = <<>>
    /\ generated = {}
    /\ resp = NoOp

NextFrame ==
    \/ \E session_id \in SessionIds :
          Room(session_id, FrameUpload, MaxFiles) /\ api_upload(session_id, FrameUpload)
    \/ \E session_id \in SessionIds : api_template_get(session_id)
    \/ \E session_id \in SessionIds : api_template_post(session_id, CustomTemplate)
    \/ \E session_id \in SessionIds, ai \in SeqsUpTo(FrameOutcomes, 2) :
          api_generate(session_id, ai)
    \/ \E session_id \in SessionIds, outcome \in FrameRefines :
          api_refine(session_id, outcome)
    \/ \E session_id \in SessionIds, format \in FrameFormats :
          api_export(session_id, format, 0)
    \/ \E session_id \in SessionIds : api_session(session_id)
    \/ \E session_id \in SessionIds : handle_template_update(session_id, CustomTemplate)

SpecFrame == InitFrame /\ [][NextFrame]_vars

-----------------------------------------------------------------------------
(* Two uploads naming one unknown session, running concurrently *)

\* Each request uploads one file and runs upload_files statement by
\* statement: the test "session_id not in active_sessions", the creation of the
\* session, file.save, process_file with the append to
\* active_sessions[session_id]['files'], and the assignment to
\* active_sessions[session_id]['extracted_content'][filename].  A request holds
\* no reference to the session dict: each statement looks the session up anew.

InitUploadRace ==
    /\ tpl = DefaultTemplate
    /\ sessions = <<>>
    /\ outputs = {}
    /\ uploads = <<>>
    /\ generated = {}
    /\ \E f1, f2 \in SavedFiles :
          resp = [op |-> "none",
                  procs |-> [p \in Requests |->
                                [pc |-> "check", file |-> IF p = 1 THEN f1 ELSE f2,
                                 absent |-> FALSE]]]

\* if session_id not in active_sessions:
UploadCheck(p) ==
    /\ resp.procs[p].pc = "check"
    /\ resp' = [resp EXCEPT !.op = "check",
                            !.procs[p].absent = ~Known(RaceSession),
                            !.procs[p].pc = IF Known(RaceSession) THEN "save" ELSE "create"]
    /\ UNCHANGED <<tpl, sessions, outputs, generated, uploads>>

\* active_sessions[session_id] = {...}
UploadCreate(p) ==
    /\ resp.procs[p].pc = "create"
    /\ sessions' = DictSet(sessions, RaceSession, NewSession)
    /\ resp' = [resp EXCEPT !.op = "create", !.procs[p].pc = "save"]
    /\ UNCHANGED <<tpl, outputs, generated, uploads>>

\* file.save(file_path)
UploadSave(p) ==
    /\ resp.procs[p].pc = "save"
    /\ uploads' = SaveLoop(uploads, <<resp.procs[p].file>>, 1)
    /\ resp' = [resp EXCEPT !.op = "save", !.procs[p].pc = "append"]
    /\ UNCHANGED <<tpl, sessions, outputs, generated>>

\* active_sessions[session_id]['files'].append({...})
UploadAppend(p) ==
    /\ resp.procs[p].pc = "append"
    /\ LET file     == resp.procs[p].file
           filename == secure_filename(file.filename)
       IN  sessions' = [sessions EXCEPT ![RaceSession].files =
                           Append(@, [filename |-> filename,
                                      path     |-> <<"uploads", filename>>,
                                      type     |-> get_file_type(file.filename)])]
    /\ resp' = [resp EXCEPT !.op = "append", !.procs[p].pc = "extract"]
    /\ UNCHANGED <<tpl, outputs, generated, uploads>>

\* active_sessions[session_id]['extracted_content'][filename] = content
UploadExtract(p) ==
    /\ resp.procs[p].pc = "extract"
    /\ LET file == resp.procs[p].file IN
       sessions' = [sessions EXCEPT ![RaceSession].extracted_content =
                       OSet(@, secure_filename(file.filename),
                            process_file(file.filename, file.extracted))]
    /\ resp' = [resp EXCEPT !.op = "extract", !.procs[p].pc = "done"]
    /\ UNCHANGED <<tpl, outputs, generated, uploads>>

NextUploadRace ==
    \E p \in Requests :
        \/ UploadCheck(p)
        \/ UploadCreate(p)
        \/ UploadSave(p)
        \/ UploadAppend(p)
        \/ UploadExtract(p)

SpecUploadRace == InitUploadRace /\ [][NextUploadRace]_vars

-----------------------------------------------------------------------------
(* Exports of two sessions as the clock advances *)

\* Two sessions after a generate each.
ExportSessions ==
    [sid \in SessionIds |->
        [NewSession EXCEPT !.generated_content =
            generate_content(DefaultTemplate, <<>>,
                             IF sid = "s1" THEN <<Completion(CitedText), Completion(ListText)>>
                             ELSE <<Completion(CitedText), Failure(<<"quota exceeded">>)>>).value]]

InitExport ==
    /\ tpl = DefaultTemplate
    /\ sessions = ExportSessions
    /\ outputs = {}
    /\ uploads = <<>>
    /\ generated = SessionIds
    /\ resp = NoOp

\* datetime.now() never runs backwards: an export is not earlier than the files
\* the directory already holds.
NotBefore(now) == \A path \in outputs : path.timestamp <= now

NextExport ==
    \E session_id \in SessionIds, format \in ExportFormats, now \in 0..MaxClock :
        /\ NotBefore(now)
        /\ api_export(session_id, format, now)

SpecExport == InitExport /\ [][NextExport]_vars

-----------------------------------------------------------------------------
(* Claims about the template engine *)

\* The rules of section 4.1, each with its rank in checking order: the four
\* top-level fields, the sections list, then for the i-th section (0-based)
\* that it is a dict, has id, title and order, and repeats no earlier id.
RuleRank(i, r) == 10 * (i + 1) + r

BrokenRules(t) ==
    {k \in 1..4 : required_fields[k] \notin DOMAIN t}
    \cup (IF "structure" \notin DOMAIN t THEN {}
          ELSE IF ~HasSectionsKey(t.structure) THEN {5}
          ELSE IF ~SectionsIsList(t.structure) THEN {6}
          ELSE IF Sections(t) = <<>> THEN {6}
          ELSE LET secs == Sections(t) IN
               {RuleRank(i - 1, 0) : i \in {i \in DOMAIN secs : ~IsDict(secs[i])}}
               \cup UNION {{RuleRank(i - 1, r) :
                               r \in {r \in 1..3 : required_section_fields[r]
                                                     \notin DOMAIN secs[i]}} :
                           i \in {i \in DOMAIN secs : IsDict(secs[i])}}
               \cup {RuleRank(i - 1, 4) :
                        i \in {i \in DOMAIN secs :
                                 /\ IsDict(secs[i]) /\ "id" \in DOMAIN secs[i]
                                 /\ \E j \in 1..(i - 1) :
                                      /\ IsDict(secs[j]) /\ "id" \in DOMAIN secs[j]
                                      /\ secs[j].id = secs[i].id}})

\* The StructuralError that reports the rule of a rank.
ErrorOfRank(t, rank) ==
    IF rank <= 4
    THEN [ok |-> FALSE, error |-> "Missing required field", field |-> required_fields[rank]]
    ELSE IF rank = 5 THEN [ok |-> FALSE, error |-> "Template must have sections"]
    ELSE IF rank = 6 THEN [ok |-> FALSE, error |-> "Template must have at least one section"]
    ELSE LET i == (rank \div 10) - 1
             r == rank % 10
         IN  IF r = 0 THEN [ok |-> FALSE, error |-> "must be a dictionary", index |-> i]
             ELSE IF r <= 3
             THEN [ok |-> FALSE, error |-> "missing required field",
                   field |-> required_section_fields[r], index |-> i]
             ELSE [ok |-> FALSE, error |-> "Duplicate section ID", id |-> Sections(t)[i + 1].id]

\* C6: validate succeeds exactly when the template has the four top-level
\* fields, a non-empty list of sections, id, title and order in every section
\* and no id twice; otherwise it fails with the error of the first broken rule
\* in checking order; and it leaves the template as it was.
C6_ValidateFirstViolation ==
    resp.op = "validate_template" =>
        LET broken == BrokenRules(resp.before) IN
        /\ resp.result.ok <=> broken = {}
        /\ broken = {} =>
              /\ \A k \in 1..4 : required_fields[k] \in DOMAIN resp.before
              /\ Len(Sections(resp.before)) > 0
              /\ UniqueIds(Sections(resp.before))
        /\ broken # {} =>
              resp.result = ErrorOfRank(resp.before,
                                CHOOSE m \in broken : \A x \in broken : m <= x)
        /\ tpl = resp.before

\* C6 witness: validate has rejected a two-section template for an id used twice.
C6_Witness ==
    /\ resp.op = "validate_template"
    /\ ~resp.result.ok
    /\ resp.result.error = "Duplicate section ID"
    /\ Len(Sections(resp.before)) = 2

\* The section of a list that carries an id (sections with pairwise different ids).
SectionOfId(sections, id) == sections[CHOOSE i \in DOMAIN sections : sections[i].id = id]

\* The 1-based place of x in a sequence of pairwise different elements.
PlaceIn(s, x) == CHOOSE k \in DOMAIN s : s[k] = x

\* C7: reorder_sections with a duplicate-free id list, on a template whose
\* section ids are unique, leaves exactly the sections whose id is in the list,
\* in the order of the list, each with order = the 1-based place of its id in
\* the list; sections whose id is not listed are gone; metadata, style and
\* formatting are untouched.
C7_ReorderSections ==
    (/\ resp.op = "reorder_sections"
     /\ Distinct(resp.new_order)
     /\ UniqueIds(Sections(resp.before))) =>
        LET old   == Sections(resp.before)
            new   == Sections(tpl)
            oldId == {old[i].id : i \in DOMAIN old}
        IN  /\ [k \in DOMAIN new |-> new[k].id]
                  = SelectSeq(resp.new_order, LAMBDA id : id \in oldId)
            /\ \A k \in DOMAIN new :
                  new[k] = [SectionOfId(old, new[k].id) EXCEPT
                               !.order = PlaceIn(resp.new_order, new[k].id)]
            /\ \A i \in DOMAIN old :
                  old[i].id \notin Range(resp.new_order)
                      => \A k \in DOMAIN new : new[k].id # old[i].id
            /\ tpl.metadata = resp.before.metadata
            /\ tpl.style = resp.before.style
            /\ tpl.formatting = resp.before.formatting

\* C7 witness: a reorder that kept a section, placed it after an unknown id
\* of the list, and dropped another section.
C7_Witness ==
    /\ resp.op = "reorder_sections"
    /\ Distinct(resp.new_order)
    /\ UniqueIds(Sections(resp.before))
    /\ Len(Sections(resp.before)) = 3
    /\ Len(Sections(tpl)) = 1
    /\ Sections(tpl)[1].order = 2

\* C8: add_section on a template with n sections gives the new section the id
\* section_<n+1> and the order n+1 where the caller gave none, required = false
\* and content_type = text where the caller gave none, keeps what the caller
\* gave, and leaves the whole list sorted by order ascending, sections of equal
\* order in their previous relative order and the new one after them.
C8_AddSection ==
    resp.op = "add_section" =>
        LET old == Sections(resp.before)
            n   == Len(old)
            s   == resp.section
            new == [k \in DOMAIN s \cup {"id", "order", "required", "content_type"} |->
                      IF k \in DOMAIN s THEN s[k]
                      ELSE CASE k = "id" -> SectionName(n + 1)
                             [] k = "order" -> n + 1
                             [] k = "required" -> FALSE
                             [] k = "content_type" -> "text"]
            pre == Append(old, new)
            now == Sections(tpl)
        IN  /\ Len(now) = n + 1
            /\ \A k \in 1..n : now[k].order <= now[k + 1].order
            /\ \E p \in [1..(n + 1) -> 1..(n + 1)] :
                  /\ \A i, j \in 1..(n + 1) : i # j => p[i] # p[j]
                  /\ \A k \in 1..(n + 1) : now[k] = pre[p[k]]
                  /\ \A i, j \in 1..(n + 1) :
                        (i < j /\ now[i].order = now[j].order) => p[i] < p[j]

\* C8 witness: a section added without id and order to an unsorted list, with
\* a section of the same order already present.
C8_Witness ==
    /\ resp.op = "add_section"
    /\ DOMAIN resp.section = {"title"}
    /\ Len(Sections(resp.before)) = 2
    /\ Sections(resp.before)[1].order > Sections(resp.before)[2].order
    /\ \E k \in 1..3 : Sections(tpl)[k].id = "section_3" /\ Sections(tpl)[k].order = 3

\* C9: section ids stay unique: from a template that passes validate, after
\* any sequence of add_section calls without an id, remove_section calls and
\* reorder_sections calls with duplicate-free lists, no two sections share an id.
C9_IdsStayUnique == UniqueIds(Sections(tpl))

-----------------------------------------------------------------------------
(* Claims about the AI service *)

\* C1: for a template whose N sections have pairwise different ids and any set
\* of sections whose AI call raises, generate_content returns (it does not
\* raise) a content with exactly N section entries keyed by the ids; a failed
\* section holds a non-empty error string, no citations and word_count 0; every
\* other section holds its completion formatted for its content type.
C1_GenerateResilient ==
    (resp.op = "generate_content" /\ UniqueIds(Sections(resp.template))) =>
        LET secs == Sections(resp.template) IN
        /\ ~resp.result.raised
        /\ Len(resp.result.value.sections) = Len(secs)
        /\ \A k \in DOMAIN secs :
              /\ OHas(resp.result.value.sections, secs[k].id)
              /\ LET r  == OGet(resp.result.value.sections, secs[k].id)
                     ct == IF "content_type" \in DOMAIN secs[k]
                           THEN secs[k].content_type ELSE "text"
                 IN  IF resp.ai[k].ok
                     THEN /\ r.content = _format_content(resp.ai[k].text, ct)
                          /\ r.citations = _extract_citations(resp.ai[k].text)
                          /\ r.word_count = WordCount(resp.ai[k].text)
                     ELSE /\ DOMAIN r.content = {"str"}
                          /\ r.content.str # <<>>
                          /\ Head(r.content.str) = "Error generating content: "
                          /\ r.citations = <<>>
                          /\ r.word_count = 0

\* C1 witness: a generation over two sections in which exactly one AI call failed.
C1_Witness ==
    /\ resp.op = "generate_content"
    /\ UniqueIds(Sections(resp.template))
    /\ Len(resp.ai) = 2
    /\ ~resp.ai[1].ok
    /\ resp.ai[2].ok
    /\ ~resp.result.raised

-----------------------------------------------------------------------------
(* Claims about the renderer *)

\* The section headings of a rendered file, in file order: level-1 headings
\* (docx), CustomHeading paragraphs (pdf), titles of content slides (pptx).
IsSectionHeading(e) ==
    \/ e.fn = "add_heading" /\ e.level = 1
    \/ e.fn = "Paragraph" /\ e.style = "CustomHeading"
    \/ e.fn = "add_slide" /\ e.layout = 1 /\ e.title.f = "{}"

SectionHeadings(elements) ==
    LET hs == SelectSeq(elements, IsSectionHeading)
    IN  [i \in DOMAIN hs |->
            IF hs[i].fn = "add_slide" THEN hs[i].title.a.str[1] ELSE hs[i].text.a.str[1]]

\* The section titles an element of a rendered file is headed with.
TokensOf(a) ==
    IF "str" \in DOMAIN a THEN Range(a.str) ELSE UNION {Range(a.list[i]) : i \in DOMAIN a.list}

TitlesIn(e) ==
    IF e.fn \in {"add_heading", "add_paragraph", "Paragraph"}
    THEN TokensOf(e.text.a) \cap {TitleOf(id) : id \in RenderIds}
    ELSE IF e.fn = "add_slide"
    THEN (TokensOf(e.title.a) \cup UNION {TokensOf(e.paragraphs[i].text.a) :
                                            i \in DOMAIN e.paragraphs})
            \cap {TitleOf(id) : id \in RenderIds}
    ELSE {}

\* C10: in each of the three formats the section headings of the output are
\* the titles of the template's sections, in template list order, of exactly
\* the sections whose id is a key of content.sections, whatever the order of
\* the keys of content.sections; a template section absent from the content
\* leaves no heading, placeholder or slide.
C10_RenderTemplateOrder ==
    (resp.op = "generate_output" /\ resp.format \in Range(supported_formats)) =>
        LET secs    == Sections(tpl)
            keys    == Range(OKeys(resp.content.sections))
            present == SelectSeq(secs, LAMBDA st : st.id \in keys)
            els     == resp.result.file.elements
        IN  /\ ~resp.result.raised
            /\ SectionHeadings(els) = [i \in DOMAIN present |-> present[i].title]
            /\ \A i \in DOMAIN secs :
                  secs[i].id \notin keys
                      => \A j \in DOMAIN els : secs[i].title \notin TitlesIn(els[j])

\* C10 witness: a template [X, Y] rendered as slides against a content whose
\* two entries were inserted in the opposite order.
C10_Witness ==
    /\ resp.op = "generate_output"
    /\ resp.format = "pptx"
    /\ Len(Sections(tpl)) = 2
    /\ Sections(tpl)[1].id = "a"
    /\ Sections(tpl)[2].id = "b"
    /\ OKeys(resp.content.sections) = <<"b", "a">>
    /\ Cardinality(outputs) = 1

\* A template [X, Y] rendered against a content that lacks Y.
C10_Skip ==
    /\ resp.op = "generate_output"
    /\ Len(Sections(tpl)) = 2
    /\ OKeys(resp.content.sections) = <<"a">>
    /\ Sections(tpl)[2].id = "b"
    /\ ~resp.result.raised
    /\ Len(SectionHeadings(resp.result.file.elements)) = 1

-----------------------------------------------------------------------------
(* Claims about the application's routes *)

\* new is old with the parse failure recorded in its metadata, and nothing else
\* different: no key, section or metadata field added, removed or altered.
RecordsFailure(old, new, msg) ==
    /\ IsDict(new)
    /\ "metadata" \in DOMAIN new
    /\ DOMAIN new = DOMAIN old \cup {"metadata"}
    /\ \A k \in DOMAIN old \ {"metadata"} : new[k] = old[k]
    /\ LET before == Get(old, "metadata", <<>>) IN
       /\ DOMAIN new.metadata = DOMAIN before \cup {"refinement_error"}
       /\ \A k \in DOMAIN before \ {"refinement_error"} : new.metadata[k] = before[k]
       /\ new.metadata.refinement_error = msg

\* C2: for any content a session holds, the empty content of a session where
\* generation has not run included, a refine whose completion does not parse
\* answers normally with the input content plus the one metadata field that
\* records the failure; no section changes and no exception propagates.
C2_RefineNonDestructive ==
    [][(/\ resp'.op = "refine"
        /\ resp'.sid \in DOMAIN sessions
        /\ ~resp'.parsed)
          => /\ resp'.status = 200
             /\ resp'.sid \in DOMAIN sessions'
             /\ \E msg \in {o.msg : o \in {x \in RefineOutcomes : ~x.ok}} :
                   RecordsFailure(sessions[resp'.sid].generated_content,
                                  sessions'[resp'.sid].generated_content, msg)]_vars

\* C3: setTemplate with a template that fails validation reports a failure and
\* leaves an existing session exactly as it was: template, files,
\* extracted_content and generated_content.
C3_InvalidTemplateNotApplied ==
    [][(/\ resp'.op = "setTemplate"
        /\ resp'.sid \in DOMAIN sessions
        /\ ~validate_template(resp'.template).ok)
          => /\ resp'.status # 200
             /\ sessions' = sessions]_vars

\* What a refused export leaves behind: status 400 (NoContent), no renderer
\* run, no file written, the session store as it was.
RefusedNoContent ==
    /\ resp'.status = 400
    /\ ~resp'.rendered
    /\ outputs' = outputs
    /\ sessions' = sessions

\* C4 as stated: export on an existing session in which generation has not yet
\* run fails with NoContent for every format, without invoking the renderer,
\* writing a file or changing the session.
C4_ExportBeforeGenerate ==
    [][(/\ resp'.op = "export"
        /\ resp'.sid \in DOMAIN sessions
        /\ resp'.sid \notin generated)
          => RefusedNoContent]_vars

\* C4 amended: export on an existing session whose stored generated content is
\* empty fails with NoContent for every format, the unsupported ones included,
\* without invoking the renderer, writing a file or changing the session.
C4_ExportEmptyContent ==
    [][(/\ resp'.op = "export"
        /\ resp'.sid \in DOMAIN sessions
        /\ ~Truthy(sessions[resp'.sid].generated_content))
          => RefusedNoContent]_vars

\* C4 witness: a session that holds files but no content is asked for a format
\* no renderer supports and answers 400.
C4_Witness ==
    /\ resp.op = "export"
    /\ resp.status = 400
    /\ resp.format = "txt"
    /\ resp.sid \in DOMAIN sessions
    /\ sessions[resp.sid].files # <<>>
    /\ ~Truthy(sessions[resp.sid].generated_content)
    /\ outputs = {}

\* C5: generate, refine and export with a session id that is not in the store
\* fail with SessionNotFound (404), make no AI call, run no renderer, and leave
\* the store's key set, every session in it and the output directory unchanged.
C5_UnknownSession ==
    [][(/\ resp'.op \in {"generate", "refine", "export"}
        /\ resp'.sid \notin DOMAIN sessions)
          => /\ resp'.status = 404
             /\ resp'.ai_calls = 0
             /\ ~resp'.rendered
             /\ sessions' = sessions
             /\ outputs' = outputs]_vars

\* C5 witness: a generate under an unknown id answers 404 while another
\* session, which holds generated content, stays in the store.
C5_Witness ==
    /\ resp.op = "generate"
    /\ resp.status = 404
    /\ resp.sid = "s2"
    /\ DOMAIN sessions = {"s1"}
    /\ Truthy(sessions["s1"].generated_content)

-----------------------------------------------------------------------------
(* Claims about the renderers' citations *)

CiteTexts == {Citation(n).full_citation : n \in 1..4}

\* What a paragraph of a rendered file is, read off its text and style: the
\* citation label, a citation item, a body paragraph, or nothing of a section.
ParaEvents(text, style) ==
    IF text.f = "Sources:" /\ style \in {"Heading 3", "Heading3"}
    THEN <<[ev |-> "label"]>>
    ELSE IF text.f = "U+2022 {}" /\ "str" \in DOMAIN text.a /\ text.a.str \in CiteTexts
    THEN <<[ev |-> "cite", of |-> text.a.str]>>
    ELSE IF text.f \in {"{}", "U+2022 {}"} /\ style \in {"Normal", "List Bullet"}
    THEN <<[ev |-> "body"]>>
    ELSE <<>>

ElementEvents(e) ==
    IF IsSectionHeading(e)
    THEN <<[ev |-> "section"]>>
         \o (IF e.fn = "add_slide"
             THEN Concat([i \in DOMAIN e.paragraphs |-> ParaEvents(e.paragraphs[i].text, "Normal")])
             ELSE <<>>)
    ELSE IF e.fn = "add_slide"
    THEN IF e.layout = 1 /\ e.title.f = "{} - Sources"
         THEN <<[ev |-> "label"]>>
              \o Concat([i \in DOMAIN e.paragraphs |-> ParaEvents(e.paragraphs[i].text, "Normal")])
         ELSE <<>>
    ELSE IF e.fn \in {"add_paragraph", "Paragraph"} THEN ParaEvents(e.text, e.style)
    ELSE <<>>

\* What the claim expects of one rendered section: its heading, its body (one
\* paragraph per list item, or one block), then the label and every citation
\* when it has any.
ExpectedEvents(section_template, section_content) ==
    LET body  == section_content.content
        cites == section_content.citations
        n     == IF Get(section_template, "content_type", "text") = "list" /\ "list" \in DOMAIN body
                 THEN Len(body.list) ELSE 1
    IN  <<[ev |-> "section"]>> \o [i \in 1..n |-> [ev |-> "body"]]
        \o (IF cites = <<>> THEN <<>>
            ELSE <<[ev |-> "label"]>>
                 \o [i \in DOMAIN cites |-> [ev |-> "cite", of |-> cites[i].full_citation]])

\* C11: in docx, pdf and pptx every rendered section with at least one citation
\* has all its citations emitted under a label after its body, whatever their
\* number (in pptx on a slide of their own when there are more than 3), and a
\* section without citations has no label.
C11_CitationsEmitted ==
    (resp.op = "generate_output" /\ resp.format \in Range(supported_formats)) =>
        LET secs    == Sections(tpl)
            cs      == resp.content.sections
            present == SelectSeq(secs, LAMBDA st : OHas(cs, st.id))
        IN  /\ ~resp.result.raised
            /\ Concat([i \in DOMAIN resp.result.file.elements |->
                          ElementEvents(resp.result.file.elements[i])])
                 = Concat([i \in DOMAIN present |->
                              ExpectedEvents(present[i], OGet(cs, present[i].id))])
            /\ resp.format = "pptx" =>
                 \A i \in DOMAIN present :
                    Len(OGet(cs, present[i].id).citations) > 3 =>
                       \E j \in DOMAIN resp.result.file.elements :
                          LET e == resp.result.file.elements[j] IN
                          /\ e.fn = "add_slide"
                          /\ e.title = Fmt("{} - Sources", Str(present[i].title))

\* The same expectation for the two document formats only.
C11_DocumentsOnly ==
    (resp.op = "generate_output" /\ resp.format \in {"docx", "pdf"}) => C11_CitationsEmitted

\* A section template a renderer can read: a dict with an id and a title.
Readable(section_template) ==
    IsDict(section_template) /\ {"id", "title"} \subseteq DOMAIN section_template

\* C12: a render with a format outside docx, pdf, pptx fails with
\* UnsupportedFormat before a renderer runs or a file exists; any render either
\* returns the path of a file that holds every section it had to render, or
\* fails and returns no file and leaves none behind.
C12_RenderAllOrNothing ==
    resp.op = "generate_output" =>
        LET result == resp.result IN
        /\ resp.format \notin Range(supported_formats) =>
              /\ result.raised
              /\ result.error = "Unsupported format"
              /\ ~result.rendered
        /\ result.raised => "file" \notin DOMAIN result /\ outputs = {}
        /\ ~result.raised =>
              /\ outputs = {result.file.path}
              /\ result.file.path.format = resp.format
              /\ \A i \in DOMAIN Sections(tpl) : Readable(Sections(tpl)[i])
              /\ Len(SectionHeadings(result.file.elements))
                    = Len(SelectSeq(Sections(tpl),
                                    LAMBDA st : OHas(resp.content.sections, st.id)))

\* C12 witness: a slide deck whose first section renders and whose second
\* section has no title: the renderer raises and no file exists.
C12_Witness ==
    /\ resp.op = "generate_output"
    /\ resp.format = "pptx"
    /\ Len(Sections(tpl)) = 2
    /\ Readable(Sections(tpl)[1])
    /\ IsDict(resp.content)
    /\ OHas(resp.content.sections, Sections(tpl)[1].id)
    /\ "title" \notin DOMAIN Sections(tpl)[2]
    /\ resp.result.raised
    /\ resp.result.rendered
    /\ outputs = {}

\* An unsupported format is refused.
C12_Unsupported ==
    /\ resp.op = "generate_output"
    /\ resp.format = "txt"
    /\ resp.result.raised

\* C13: two renders into the same output directory return distinct paths, so a
\* successful export never returns a path the directory already holds, also
\* when both are of the same format within one clock second.
C13_DistinctPaths ==
    [][(resp'.op = "export" /\ resp'.status = 200) => resp'.path \notin outputs]_vars

-----------------------------------------------------------------------------
(* Claims about uploads *)

\* The places of a request's files that carry a file name.
Named(files) == {i \in DOMAIN files : files[i].filename # ""}

\* The places of the files upload_files stores: the named ones before the first
\* whose name secure_filename empties.
Stored(files) ==
    {i \in Named(files) :
        \A j \in Named(files) : j <= i => secure_filename(files[j].filename) # ""}

Extraction(file) == process_file(file.filename, file.extracted)

\* C14 as stated, for a successful first upload request of a session:
\* extracted_content holds exactly one entry per distinct uploaded filename, and
\* the extraction of the last upload of each filename is among the entries.
C14_EntryPerFilename ==
    [][(resp'.op = "upload" /\ resp'.status = 200 /\ resp'.sid \notin DOMAIN sessions)
          => LET files == resp'.files
                 new   == sessions'[resp'.sid].extracted_content
             IN  /\ Distinct(OKeys(new))
                 /\ Len(new) = Cardinality({files[i].filename : i \in Named(files)})
                 /\ \A i \in Named(files) :
                       (\A j \in Named(files) : j > i => files[j].filename # files[i].filename)
                          => \E e \in DOMAIN new : new[e].v = Extraction(files[i])]_vars

\* C14 amended: after any upload request extracted_content holds exactly one
\* entry per distinct secure_filename of the files stored so far; the entry of
\* a name is the extraction of the last stored file with that secure_filename,
\* and the entries of the other names are as they were.
C14_EntryPerSecureName ==
    [][resp'.op = "upload"
          => LET files == resp'.files
                 old   == Ensure(sessions, resp'.sid)[resp'.sid].extracted_content
                 new   == sessions'[resp'.sid].extracted_content
                 names == {secure_filename(files[i].filename) : i \in Stored(files)}
             IN  /\ Distinct(OKeys(new))
                 /\ Range(OKeys(new)) = Range(OKeys(old)) \cup names
                 /\ \A key \in Range(OKeys(old)) \ names : OGet(new, key) = OGet(old, key)
                 /\ \A i \in Stored(files) :
                       (\A j \in Stored(files) :
                           j > i => secure_filename(files[j].filename)
                                      # secure_filename(files[i].filename))
                          => OGet(new, secure_filename(files[i].filename))
                               = Extraction(files[i])]_vars

\* C14 witness: a second request uploads a.pdf to a session that holds the
\* extraction of ../a.pdf under the same name; one entry remains, the later one.
C14_Witness ==
    /\ resp.op = "upload"
    /\ resp.status = 200
    /\ Len(resp.files) = 1
    /\ resp.files[1].filename = "a.pdf"
    /\ LET session == sessions[resp.sid] IN
       /\ Len(session.files) = 2
       /\ OKeys(session.extracted_content) = <<"a.pdf">>
       /\ OGet(session.extracted_content, "a.pdf").filename = "a.pdf"

-----------------------------------------------------------------------------
(* Claims about citation extraction and list formatting *)

\* The bracketed spans of a text: from a "[" to the next "]", at least one
\* character between them, the widest of those that close at the same "]".
Closes(text, i, j) ==
    /\ i < j - 1
    /\ text[i] = "["
    /\ text[j] = "]"
    /\ \A k \in i + 1 .. j - 1 : text[k] # "]"

Spans(text) ==
    {p \in (DOMAIN text) \X (DOMAIN text) :
        /\ Closes(text, p[1], p[2])
        /\ \A i \in 1 .. p[1] - 1 : ~Closes(text, i, p[2])}

\* t is s without its leading and trailing whitespace.
IsTrimOf(t, s) ==
    \E a \in 0 .. Len(s) : \E b \in 0 .. Len(s) - a :
        /\ \A k \in 1 .. a : s[k] \in Whitespace
        /\ \A k \in Len(s) - b + 1 .. Len(s) : s[k] \in Whitespace
        /\ t = SubSeq(s, a + 1, Len(s) - b)
        /\ t = <<>> \/ (t[1] \notin Whitespace /\ t[Len(t)] \notin Whitespace)

\* C15: the citations are, in order of appearance, one per bracketed span whose
\* token holds ":", with source the trimmed text before the first ":",
\* location the trimmed rest and full_citation the token; spans without ":"
\* yield nothing, so a text whose spans all lack ":" yields no citation.
C15_ExtractCitations ==
    resp.op = "_extract_citations" =>
        LET text  == resp.text
            cited == {p \in Spans(text) : \E k \in p[1] + 1 .. p[2] - 1 : text[k] = ":"}
            cs    == resp.result
        IN  /\ Len(cs) = Cardinality(cited)
            /\ \E at \in [DOMAIN cs -> cited] :
                  /\ \A m, n \in DOMAIN cs : m < n => at[m][1] < at[n][1]
                  /\ \A n \in DOMAIN cs :
                        LET token == SubSeq(text, at[n][1] + 1, at[n][2] - 1)
                            colon == CHOOSE k \in DOMAIN token :
                                        token[k] = ":" /\ \A l \in 1 .. k - 1 : token[l] # ":"
                        IN  /\ cs[n].full_citation = token
                            /\ IsTrimOf(cs[n].source, SubSeq(token, 1, colon - 1))
                            /\ IsTrimOf(cs[n].location, SubSeq(token, colon + 1, Len(token)))

\* C15 witness: the text of the specification's example followed by a span
\* without ":" and a second citation: two citations, the second with two colons.
C15_Witness ==
    /\ resp.op = "_extract_citations"
    /\ Len(resp.result) = 2
    /\ Cardinality(Spans(resp.text)) = 3
    /\ resp.result[1].source = <<"Acme", " ", "Report">>
    /\ resp.result[1].location = <<"page", " ", "4">>
    /\ resp.result[2].location = <<"x", ":", "z">>

\* A text whose only bracketed span lacks ":" yields no citation.
C15_NoColon ==
    /\ resp.op = "_extract_citations"
    /\ Cardinality(Spans(resp.text)) = 1
    /\ resp.result = <<>>

\* The length of the list marker a trimmed line starts with, or 0: one of
\* "-", bullet, "*", or leading digits followed by ".".
RECURSIVE DigitsThenDot(_, _)
DigitsThenDot(line, k) ==
    IF k > Len(line) THEN 0
    ELSE IF line[k] \in Digits THEN DigitsThenDot(line, k + 1)
    ELSE IF line[k] = "." /\ k > 1 THEN k
    ELSE 0

MarkerLen(line) ==
    IF line = <<>> THEN 0
    ELSE IF line[1] \in {"-", Bullet, "*"} THEN 1
    ELSE DigitsThenDot(line, 1)

\* C16: for content_type list the items are, in order and with the marker
\* removed, exactly the lines that start with "-", bullet, "*" or a leading
\* digit followed by "."; other lines are discarded; with no such line the
\* result is the list holding the raw text. For text the raw text is returned.
C16_FormatContent ==
    resp.op = "_format_content" =>
        IF resp.content_type = "list"
        THEN LET lines    == Split(resp.content, "\n")
                 trimmed  == [i \in DOMAIN lines |-> Strip(lines[i])]
                 accepted == SelectSeq(trimmed, LAMBDA line : MarkerLen(line) > 0)
                 items    == [i \in DOMAIN accepted |->
                                SubSeq(accepted[i], MarkerLen(accepted[i]) + 1, Len(accepted[i]))]
             IN  /\ "list" \in DOMAIN resp.result
                 /\ IF accepted = <<>> THEN resp.result.list = <<resp.content>>
                    ELSE /\ Len(resp.result.list) = Len(items)
                         /\ \A i \in DOMAIN items : IsTrimOf(resp.result.list[i], items[i])
        ELSE resp.result = [str |-> resp.content]

\* The example of the specification, with "*" for the second marker.
C16_Example ==
    /\ resp.op = "_format_content"
    /\ resp.content_type = "list"
    /\ resp.content = <<"-", " ", "first", "\n", "*", "second", "\n", "3", ".", " ", "third">>
    /\ resp.result = [list |-> <<<<"first">>, <<"second">>, <<"third">>>>]

-----------------------------------------------------------------------------
(* Claims about the lifecycle of sessions *)

\* C17: the store starts empty and a request changes its key set only by adding
\* the id an upload or a template write names; getTemplate, getSession,
\* generate, refine, export and the socket template_update never add an id,
\* and no request removes one.
C17_SessionLifecycle ==
    [][DOMAIN sessions' =
          DOMAIN sessions \cup (IF resp'.op \in {"upload", "setTemplate"}
                                THEN {resp'.sid} ELSE {})]_vars

\* C17 witness: the socket update names an id no session was opened for, while
\* the store holds the session a template write opened; the id stays unknown.
C17_Witness ==
    /\ resp.op = "template_update"
    /\ resp.sid = "s2"
    /\ DOMAIN sessions = {"s1"}
    /\ sessions["s1"].files = <<>>

-----------------------------------------------------------------------------
(* Claims about failing extractions *)

\* A file whose extraction fails: its type is unsupported or its extractor
\* raises.
ExtractionFails(file) ==
    \/ get_file_type(file.filename) = "unknown"
    \/ ~file.extracted.ok

\* A step that is no upload of a failing file, or one that contains the failure.
ContainsFailure ==
       (/\ resp'.op = "upload"
        /\ \E i \in Named(resp'.files) : ExtractionFails(resp'.files[i]))
          => LET files == resp'.files
                 old   == Ensure(sessions, resp'.sid)[resp'.sid]
                 new   == sessions'[resp'.sid]
                 key(i) == secure_filename(files[i].filename)
                 last  == {i \in Named(files) :
                              \A j \in Named(files) : j > i => key(j) # key(i)}
             IN  /\ resp'.status = 200
                 /\ Len(new.files) = Len(old.files) + Cardinality(Named(files))
                 /\ \A i \in Named(files) : OHas(new.extracted_content, key(i))
                 /\ \A i \in last :
                       LET entry == OGet(new.extracted_content, key(i)) IN
                       IF ExtractionFails(files[i])
                       THEN "error" \in DOMAIN entry.metadata /\ entry.content = <<>>
                       ELSE entry = files[i].extracted.value

\* C18: when a request holds a file whose extractor raises or whose type is
\* unsupported, the upload succeeds; every named file of the request gets a
\* files entry and an extracted_content entry, the failing ones with
\* metadata.error, the others with their extraction.
C18_ExtractionFailureContained == [][ContainsFailure]_vars

\* The same for requests all of whose file names secure_filename keeps.
C18_WhenNamesKept ==
    [][(resp'.op = "upload"
        /\ \A i \in Named(resp'.files) : secure_filename(resp'.files[i].filename) # "")
          => ContainsFailure]_vars

-----------------------------------------------------------------------------
(* Claims about the quality validator *)

\* The sum over the sections of a content of their numbers of citations.
RECURSIVE CitationTotal(_)
CitationTotal(sections) ==
    IF sections = <<>> THEN 0
    ELSE Len(Head(sections).v.citations) + CitationTotal(Tail(sections))

\* C19: with n sections and c citations in all, the score is
\* min(c / max(n,1) * 50, 50) + (30 if n >= 3 else 15) + (20 if there is no
\* issue else 10), citations_count is c, and the score lies in 25..100.
C19_QualityScore ==
    resp.op = "validate_content_quality" =>
        LET n     == Len(resp.content.sections)
            c     == CitationTotal(resp.content.sections)
            m     == IF n >= 1 THEN n ELSE 1
            score == resp.result.overall_score
            rest  == (IF n >= 3 THEN 30 ELSE 15)
                        + (IF resp.result.issues = <<>> THEN 20 ELSE 10)
        IN  /\ resp.result.citations_count = c
            /\ score.den > 0
            /\ IF c * 50 <= 50 * m
               THEN score.num * m = (c * 50 + rest * m) * score.den
               ELSE score.num = (50 + rest) * score.den
            /\ 25 * score.den <= score.num
            /\ score.num <= 100 * score.den

\* C19 witness: three sections, one citation, one issue: 50/3 + 30 + 10.
C19_Witness ==
    /\ resp.op = "validate_content_quality"
    /\ Len(resp.content.sections) = 3
    /\ resp.result.citations_count = 1
    /\ resp.result.issues # <<>>
    /\ resp.result.overall_score = [num |-> 170, den |-> 3]

\* The lowest and the highest score are reached.
C19_Lowest ==
    /\ resp.op = "validate_content_quality"
    /\ resp.result.overall_score.num = 25 * resp.result.overall_score.den

C19_Highest ==
    /\ resp.op = "validate_content_quality"
    /\ resp.result.overall_score.num = 100 * resp.result.overall_score.den

\* The titles, in order, named by a list of issues or of suggestions.
TitlesOf(flags) == [i \in DOMAIN flags |-> flags[i].title]

\* The titles, in order, of the sections that lack citations for a content of
\* more than 100 characters, and of those without any action word.
Unbacked(sections) ==
    LET lacking(e) == /\ Len(e.v.citations) = 0
                      /\ StrLen(e.v.content) > 100
        picked     == SelectSeq(sections, lacking)
    IN  [i \in DOMAIN picked |-> picked[i].v.title]

Unactionable(sections) ==
    LET passive(e) == ~HasActionWord(e.v.content)
        picked     == SelectSeq(sections, passive)
    IN  [i \in DOMAIN picked |-> picked[i].v.title]

\* C20 as stated: there is a suggestion when no section's text contains an
\* action word, and none as soon as one section's text contains one; a section
\* has an issue exactly when it has no citation and more than 100 characters.
C20_SuggestionsForDocument ==
    resp.op = "validate_content_quality" =>
        LET sections == resp.content.sections IN
        /\ (\A i \in DOMAIN sections : ~HasActionWord(sections[i].v.content))
                => resp.result.suggestions # <<>>
        /\ (\E i \in DOMAIN sections : HasActionWord(sections[i].v.content))
                => resp.result.suggestions = <<>>
        /\ TitlesOf(resp.result.issues) = Unbacked(sections)

\* C20 of the code: a section has a suggestion exactly when its own text
\* contains no action word, and an issue exactly when it has no citation and
\* more than 100 characters.
C20_SuggestionsPerSection ==
    resp.op = "validate_content_quality" =>
        /\ TitlesOf(resp.result.suggestions) = Unactionable(resp.content.sections)
        /\ TitlesOf(resp.result.issues) = Unbacked(resp.content.sections)

\* C20 witness: one section with an action word and one without, the latter
\* flagged by a suggestion; one section of exactly 100 characters without
\* citations and without an issue, one of 101 with an issue.
C20_Witness ==
    /\ resp.op = "validate_content_quality"
    /\ \E i, j \in DOMAIN resp.content.sections :
          /\ HasActionWord(resp.content.sections[i].v.content)
          /\ ~HasActionWord(resp.content.sections[j].v.content)
          /\ resp.content.sections[j].v.title \in Range(TitlesOf(resp.result.suggestions))
          /\ resp.content.sections[i].v.title \notin Range(TitlesOf(resp.result.suggestions))
    /\ \E i, j \in DOMAIN resp.content.sections :
          /\ resp.content.sections[i].v.citations = <<>>
          /\ StrLen(resp.content.sections[i].v.content) = 100
          /\ resp.content.sections[i].v.title \notin Range(TitlesOf(resp.result.issues))
          /\ resp.content.sections[j].v.citations = <<>>
          /\ StrLen(resp.content.sections[j].v.content) = 101
          /\ resp.content.sections[j].v.title \in Range(TitlesOf(resp.result.issues))

\* The second sentence of C20 alone: it fails on a content with one section
\* that has an action word and one that has none.
C20_NoneOnceActionable ==
    (/\ resp.op = "validate_content_quality"
     /\ \E i \in DOMAIN resp.content.sections :
            HasActionWord(resp.content.sections[i].v.content))
        => resp.result.suggestions = <<>>

\* The first sentence of C20 holds for a content with at least one section; a
\* content without sections has no suggestion.
C20_NoKeywordAnywhere ==
    (/\ resp.op = "validate_content_quality"
     /\ resp.content.sections # <<>>
     /\ \A i \in DOMAIN resp.content.sections :
            ~HasActionWord(resp.content.sections[i].v.content))
        => resp.result.suggestions # <<>>

-----------------------------------------------------------------------------
(* Claims about the order of generation and rendering *)

\* The order values of the template's sections of the given titles or ids.
OrderOfId(id) == (CHOOSE i \in DOMAIN Sections(tpl) : Sections(tpl)[i].id = id)

OrderValues(ids) ==
    [i \in DOMAIN ids |-> Sections(tpl)[OrderOfId(ids[i])].order]

IdOfTitle(title) == CHOOSE id \in RenderIds : TitleOf(id) = title

Ascending(s) == \A i, j \in DOMAIN s : i < j => s[i] <= s[j]

\* The ids of the sections in the order in which they were generated or
\* rendered by the last operation.
Processed ==
    IF resp.op = "generate_content" THEN OKeys(resp.result.value.sections)
    ELSE LET hs == SectionHeadings(resp.result.file.elements)
         IN  [i \in DOMAIN hs |-> IdOfTitle(hs[i])]

\* C21: whatever the order in which the template's section list is stored,
\* generation and rendering process the sections in ascending order of their
\* order field.
C21_AscendingOrder ==
    (resp.op \in {"generate_content", "generate_output"} /\ ~resp.result.raised)
        => Ascending(OrderValues(Processed))

\* Generation and rendering process the sections in the order of the stored
\* list.
C21_ListOrder ==
    (resp.op \in {"generate_content", "generate_output"} /\ ~resp.result.raised)
        => Processed = [i \in DOMAIN Sections(tpl) |-> Sections(tpl)[i].id]

\* A template stored as [order 2, order 1] is generated and rendered in that
\* order.
C21_Unsorted ==
    /\ resp.op = "generate_output"
    /\ ~resp.result.raised
    /\ Len(Sections(tpl)) = 2
    /\ Sections(tpl)[1].order > Sections(tpl)[2].order
    /\ Processed = <<Sections(tpl)[1].id, Sections(tpl)[2].id>>

-----------------------------------------------------------------------------
(* Claims about concurrent requests on one session *)

BothDone == resp.op # "none" /\ \A p \in Requests : resp.procs[p].pc = "done"

Kinds == {resp.procs[p].kind : p \in Requests}

LastWriter == resp.writers[Len(resp.writers)]

\* C22: when a generate and a refine, or two generates, on one session
\* interleave, then after both have completed the session's generated_content
\* is the whole dict returned to the request that assigned last.
C22_LastWriterWins ==
    (BothDone /\ "generate" \in Kinds /\ resp.writers # <<>>)
        => sessions[RaceSession].generated_content = resp.procs[LastWriter].returned

\* C22 witness: a refine read the content, a generate then stored its result,
\* and the refine, failing, stored the content it had read with its error
\* note; or the refine stored first and the generate last.
C22_Witness ==
    /\ BothDone
    /\ Kinds = {"generate", "refine"}
    /\ Len(resp.writers) = 2
    /\ resp.procs[LastWriter].kind = "refine"
    /\ resp.procs[LastWriter].cur = 1
    /\ ~resp.procs[LastWriter].outcome[1].ok
    /\ sessions[RaceSession].generated_content = resp.heap[1]
    /\ "refinement_error" \in DOMAIN resp.heap[1].metadata

C22_GenerateLast ==
    /\ BothDone
    /\ Kinds = {"generate", "refine"}
    /\ Len(resp.writers) = 2
    /\ resp.procs[LastWriter].kind = "generate"

\* The same for two refines, which does not hold: two failing refines write
\* their notes into the one dict both have read.
C22_TwoRefines ==
    (BothDone /\ resp.writers # <<>>)
        => sessions[RaceSession].generated_content = resp.procs[LastWriter].returned

\* The session's content is the object it points to.
C22_SessionIsRef == sessions[RaceSession].generated_content = resp.heap[resp.ref]

-----------------------------------------------------------------------------
(* Claims about the upload directory *)

\* C23: the upload directory is append-only: an upload, whatever the names of
\* its files, leaves every file that is in the directory there and with the
\* bytes it has.
C23_UploadsAppendOnly ==
    [][\A path \in DOMAIN uploads :
          path \in DOMAIN uploads' /\ uploads'[path] = uploads[path]]_vars

\* Files are never removed from the upload directory.
C23_NeverRemoved == [][DOMAIN uploads \subseteq DOMAIN uploads']_vars

\* A session holds the extraction of a file it uploaded while the file at the
\* recorded path is one uploaded later, under the same name, to another session.
C23_Replaced ==
    /\ resp.op = "upload"
    /\ resp.sid = "s2"
    /\ "s1" \in DOMAIN sessions
    /\ \E i \in DOMAIN sessions["s1"].files :
          LET file == sessions["s1"].files[i] IN
          /\ file.filename = "a.pdf"
          /\ file.path \in DOMAIN uploads
          /\ OGet(sessions["s1"].extracted_content, file.filename)
                = PdfExtractionOf("a.pdf").value
          /\ uploads[file.path] = Failure(<<"EOF marker not found">>)

-----------------------------------------------------------------------------
(* Claims about the ownership of templates *)

InPlaceOps ==
    {"add_section", "remove_section", "reorder_sections", "update_style",
     "update_formatting", "create_custom_template"}

\* C24: an in-place operation on a template obtained from get_default_template
\* changes neither the engine's default template nor the template of any other
\* session created from the default.
C24_TemplateOwned ==
    [][resp'.op \in InPlaceOps =>
          /\ tpl' = tpl
          /\ \A s \in DOMAIN sessions :
                s # resp'.holder => sessions'[s].template = sessions[s].template]_vars

\* After update_style on the template of one session, the default template and
\* the template of the other session have the new tone.
C24_Shared ==
    /\ resp.op = "update_style"
    /\ resp.holder = "s1"
    /\ "s2" \in DOMAIN sessions
    /\ tpl.style.tone = "casual"
    /\ sessions["s2"].template.style.tone = "casual"

\* create_custom_template leaves its name and sections in the default template,
\* also when it raises for a template it rejects.
C24_CustomLeaks ==
    /\ resp.op = "create_custom_template"
    /\ resp.raised
    /\ tpl.metadata.name = "Custom"
    /\ Sections(tpl) = <<>>

-----------------------------------------------------------------------------
(* Claims about the shape of generated content *)

\* Whether a section result's content has the shape of its type: a list of
\* strings for "list", one string otherwise.
ShapedByType(r) ==
    IF r.type = "list" THEN DOMAIN r.content = {"list"} ELSE DOMAIN r.content = {"str"}

\* C25: in every content generate_content returns, each section result's
\* content has the shape of the section's content type, whether the AI call of
\* the section succeeded or failed.
C25_ContentShape ==
    (resp.op = "generate_content" /\ ~resp.result.raised) =>
        \A i \in DOMAIN resp.result.value.sections :
            ShapedByType(resp.result.value.sections[i].v)

\* The same for the sections whose AI call succeeded, which holds.
C25_ShapeOnSuccess ==
    (resp.op = "generate_content" /\ ~resp.result.raised
        /\ UniqueIds(Sections(resp.template))) =>
        \A k \in DOMAIN resp.ai :
            resp.ai[k].ok =>
                ShapedByType(OGet(resp.result.value.sections, Sections(resp.template)[k].id))

\* A section of type list whose AI call failed holds a string.
C25_FailedList ==
    /\ resp.op = "generate_content"
    /\ ~resp.result.raised
    /\ Len(resp.ai) = 1
    /\ ~resp.ai[1].ok
    /\ resp.result.value.sections[1].v.type = "list"
    /\ DOMAIN resp.result.value.sections[1].v.content = {"str"}

-----------------------------------------------------------------------------
(* Claims about the templates the session store holds *)

\* C26: in every reachable state of the session store, the template of every
\* session passes validate_template.
C26_StoredTemplatesValid ==
    \A s \in DOMAIN sessions : validate_template(sessions[s].template).ok

\* A template_update event has stored a template validate_template rejects,
\* and a rejected POST has stored the template it was refused for.
C26_SocketStoresInvalid ==
    /\ resp.op = "template_update"
    /\ resp.sid \in DOMAIN sessions
    /\ ~validate_template(sessions[resp.sid].template).ok

C26_PostStoresInvalid ==
    /\ resp.op = "setTemplate"
    /\ resp.status = 500
    /\ ~validate_template(sessions[resp.sid].template).ok

\* A generate has run against a stored template that validate_template rejects.
C26_GenerateOnInvalid ==
    /\ resp.op = "generate"
    /\ resp.status = 200
    /\ ~validate_template(sessions[resp.sid].template).ok

-----------------------------------------------------------------------------
(* Claims about exports after a generate *)

\* C27: once a generate has completed on a session, no later export of a
\* supported format on that session is refused for lack of content (400),
\* whatever uploads, template writes and refines happened in between.
C27_ContentStaysExportable ==
    (/\ resp.op = "export"
     /\ resp.sid \in generated
     /\ resp.format \in Range(supported_formats))
        => resp.status # 400

\* A refine whose completion parsed to the empty object has replaced the
\* generated content of a session, and the export after it is refused.
C27_RefinedAway ==
    /\ resp.op = "export"
    /\ resp.status = 400
    /\ resp.sid \in generated
    /\ sessions[resp.sid].generated_content = <<>>

\* Without refines in between, the export after a generate is not refused:
\* a step other than a refine keeps a generated content non-empty.
C27_OnlyRefineEmpties ==
    [][(/\ resp'.op # "refine"
        /\ \A s \in DOMAIN sessions : s \in generated => Truthy(sessions[s].generated_content))
          => \A s \in DOMAIN sessions' :
                s \in generated' => Truthy(sessions'[s].generated_content)]_vars

-----------------------------------------------------------------------------
(* Claims about reorder_sections on any id list *)

\* C28: for any id list, with repeated or unknown ids, reorder_sections on a
\* template whose section ids are unique leaves a section list in which no
\* section appears twice and no two sections share an id.
C28_ReorderKeepsIdsUnique ==
    (resp.op = "reorder_sections" /\ UniqueIds(Sections(resp.before)))
        => UniqueIds(Sections(tpl))

\* An id list that names a section twice leaves the section twice, both
\* entries with the order of the second place.
C28_Repeated ==
    /\ resp.op = "reorder_sections"
    /\ UniqueIds(Sections(resp.before))
    /\ Len(resp.new_order) = 2
    /\ resp.new_order[1] = resp.new_order[2]
    /\ Len(Sections(tpl)) = 2
    /\ Sections(tpl)[1] = Sections(tpl)[2]
    /\ Sections(tpl)[1].order = 2

\* Unknown ids alone do no harm: an id list without repeats leaves unique ids.
C28_UnknownIdsDropped ==
    (/\ resp.op = "reorder_sections"
     /\ UniqueIds(Sections(resp.before))
     /\ Distinct(resp.new_order))
        => UniqueIds(Sections(tpl))

-----------------------------------------------------------------------------
(* Claims about what each route changes *)

\* The session a request finds, or the one it would create.
Before(session_id) ==
    IF session_id \in DOMAIN sessions THEN sessions[session_id] ELSE NewSession

\* The fields of the named session a step may change.
MayChange(op) ==
    CASE op = "upload" -> {"files", "extracted_content"}
      [] op \in {"setTemplate", "template_update"} -> {"template"}
      [] op \in {"generate", "refine"} -> {"generated_content"}
      [] OTHER -> {}

FrameStep ==
    LET s == resp'.sid IN
    /\ \A t \in DOMAIN sessions :
          t # s => t \in DOMAIN sessions' /\ sessions'[t] = sessions[t]
    /\ DOMAIN sessions' \subseteq DOMAIN sessions \cup {s}
    /\ s \in DOMAIN sessions' =>
          \A field \in DOMAIN NewSession \ MayChange(resp'.op) :
              sessions'[s][field] = Before(s)[field]
    /\ resp'.op \in {"export", "getTemplate", "getSession"} => sessions' = sessions

\* C29: an upload changes only the files and extracted_content of the named
\* session, a template write only its template, generate and refine only its
\* generated_content; export, getTemplate and getSession change no session;
\* and no request changes a session of another id.
C29_FrameEffects == [][FrameStep]_vars

\* C29 witness: a template write on a session that holds generated content,
\* which is kept, next to another session that holds files and content.
C29_Witness ==
    /\ resp.op = "setTemplate"
    /\ resp.sid = "s1"
    /\ DOMAIN sessions = {"s1", "s2"}
    /\ sessions["s1"].template = CustomTemplate
    /\ Truthy(sessions["s1"].generated_content)
    /\ sessions["s1"].generated_content.metadata.template_name = DefaultMetadata.name
    /\ sessions["s2"].files # <<>>
    /\ Truthy(sessions["s2"].generated_content)

-----------------------------------------------------------------------------
(* Claims about concurrent uploads to one new session *)

UploadsDone == resp.op # "none" /\ \A p \in Requests : resp.procs[p].pc = "done"

\* C30: when two uploads naming one unknown session id interleave, then after
\* both have completed the session's files list has an entry for the file of
\* each and extracted_content an entry under the name of each.
C30_BothUploadsKept ==
    UploadsDone =>
        /\ Len(sessions[RaceSession].files) = Cardinality(Requests)
        /\ \A p \in Requests :
              LET filename == secure_filename(resp.procs[p].file.filename) IN
              /\ \E i \in DOMAIN sessions[RaceSession].files :
                    sessions[RaceSession].files[i].filename = filename
              /\ OHas(sessions[RaceSession].extracted_content, filename)

\* Both requests found no session; the one that created it second discarded
\* the session in which the other had already recorded its file.
C30_Lost ==
    /\ UploadsDone
    /\ \A p \in Requests : resp.procs[p].absent
    /\ Len(sessions[RaceSession].files) = 1
    /\ Len(sessions[RaceSession].extracted_content) = 1

\* The same loss between the two records of one file: its entry in files is
\* gone with the discarded session, its extraction is in the new one.
C30_Split ==
    /\ UploadsDone
    /\ Len(sessions[RaceSession].files) = 1
    /\ Len(sessions[RaceSession].extracted_content) = 2

\* When the second request runs its test after the first has created the
\* session, nothing is lost.
C30_KeptWhenOneCreates ==
    (UploadsDone /\ \E p \in Requests : ~resp.procs[p].absent)
        => Len(sessions[RaceSession].files) = Cardinality(Requests)

=============================================================================
